---- MODULE Spec2Model ----
(***************************************************************************)
(* Upload scheduling and batch upload of changdu-material.                 *)
(*                                                                         *)
(*   Spec        the task queue and scheduler (JuliangSchedulerService):   *)
(*               start/stop, fetch cycles, the periodic timer and the      *)
(*               processQueue loops, one step per await of the code.       *)
(*   UploadSpec  the batch uploader (JuliangService): uploadTask, the      *)
(*               retries of uploadBatch, the polling loop of               *)
(*               uploadBatchInternal, close() and the checkpoint store.    *)
(***************************************************************************)
EXTENDS Integers, Sequences, FiniteSets, TLC

(***************************************************************************)
(* Bounds of the model.                                                    *)
(***************************************************************************)
\* fetch cycles (calls of fetchAndEnqueueTasks) in one behaviour
MaxFetches == 2

\* the records of the tracking table
Records == {"r1", "r2"}

\* the date of a record's drama, as its rank in date order (r2 is the earlier)
DateOf(r) == IF r = "r1" THEN 2 ELSE 1

\* asynchronous contexts: 0 is the interval timer's callback, the others are
\* the start() invocations, each of which becomes a processQueue loop (two
\* is what a stop() followed by a start() leaves alive)
Slots == {1, 2}
Ctx == {0} \cup Slots

\* identities of the InternalTask objects alive at once: those in the queue
\* (one per record) and those a loop still holds after a sweep removed them
TaskIds == 1..(Cardinality(Records) + Cardinality(Slots))
NoTask == 0
FreeTask == [recordId |-> "", status |-> "free"]

\* sentinels of the tracking table's status field
StPending == "awaiting_upload"
StUploading == "uploading"
StReady == "ready_for_build"
StSkipped == "skip_upload"
RemoteStatuses == {StPending, StUploading, StReady, StSkipped}

VARIABLES
  status,            \* SchedulerStatus
  queue,             \* InternalTask[] as a sequence of task identities
  tasks,             \* the InternalTask objects
  taskMap,           \* recordId -> task, NoTask when absent
  fetchTimer,        \* the interval timer is armed
  isTaskProcessing,
  fetchCount,        \* calls of fetchAndEnqueueTasks so far
  pc,                \* where each asynchronous context is suspended
  cur,               \* the task a loop is processing
  closePc,           \* close(): "idle" or "closing" (awaiting page.close())
  startError,        \* the error the last start() returned; "" when none or one is under way
  page,              \* juliangService.page is not null
  isCancelled,       \* juliangService.isCancelled
  remote,            \* the tracking table: record -> status
  localFiles,        \* the drama's local directory holds video files
  initPc,            \* initialize(): "idle" or "launching"
  upl,               \* the uploadTask invocation: its position and locals
  progress,          \* the checkpoint store: recordId -> checkpoint
  covered,           \* history: the files (by position in the list) of the batches
                     \* confirmed by the runs behind a record's checkpoint
  downloadTasks,     \* the download page's items: status, progress, retryCount
  poolQueue,         \* the queue shared by the workers of startDownload
  concurrentDownloads,
  downloading,       \* startDownload: "ready", "running" or "finished"
  worker,            \* each worker: its position, its task, isStalled
  userOp,            \* the retryDownload / resumeDownload chain of each item
  transfer,          \* the requests of the main process, per item and awaiter
  activeDownloads,   \* DownloadService.activeDownloads: whose request is registered
  ahead,             \* the items that were queued before an item at its requeue
  retried,           \* the items retryDownload was invoked for
  secondRun,         \* a startDownload run begun while the first is under way
  uploadQueue,       \* TosService.uploadQueue
  uploadingCount,    \* TosService.uploadingCount
  maxConcurrentUploads,
  uploadCancelTokens, \* file name -> the invocation whose token is registered
  activeUploads,     \* the file names marked as uploading
  uploads,           \* the uploadFile invocations: their file and phase
  batchInits,        \* calls of uploadBatch awaiting initTosClient
  uploadResult,      \* what onComplete last reported for each file name
  extractQueue,      \* FileService.extractQueue: the extractZip calls waiting
  isExtracting,      \* FileService.isExtracting
  extractCalls,      \* each extractZip call: where its promise stands
  immediates,        \* the setImmediate callbacks of processExtractQueue pending
  attempts,          \* the attempts of the pool on one item: page side and main side
  ipcQueue,          \* the invoke messages of the page the main process has not handled
  cancelledDownloads,\* DownloadService.cancelledDownloads holds the item's name
  activeRequest      \* the attempt whose request activeDownloads holds for the name

schedVars == <<status, queue, tasks, taskMap, fetchTimer, isTaskProcessing,
               fetchCount, pc, cur, closePc, startError>>
envVars == <<remote, localFiles>>
browserVars == <<page, isCancelled>>
uploadVars == <<initPc, upl, progress, covered>>
poolVars == <<downloadTasks, poolQueue, concurrentDownloads, downloading, worker,
              userOp, transfer, activeDownloads, ahead, retried, secondRun>>
tosVars == <<uploadQueue, uploadingCount, maxConcurrentUploads, uploadCancelTokens,
             activeUploads, uploads, batchInits, uploadResult>>
fileVars == <<extractQueue, isExtracting, extractCalls, immediates>>
cancelVars == <<attempts, ipcQueue, cancelledDownloads, activeRequest>>
otherVars == <<schedVars, envVars, browserVars, uploadVars, tosVars, fileVars, cancelVars>>
nonTosVars == <<schedVars, envVars, browserVars, uploadVars, poolVars, fileVars, cancelVars>>
nonFileVars == <<schedVars, envVars, browserVars, uploadVars, poolVars, tosVars, cancelVars>>
nonCancelVars == <<schedVars, envVars, browserVars, uploadVars, poolVars, tosVars, fileVars>>
vars == <<schedVars, envVars, browserVars, uploadVars, poolVars, tosVars, fileVars, cancelVars>>

(***************************************************************************)
(* The scheduler's fields as one value, so that the synchronous calls of   *)
(* a handler compose.                                                      *)
(***************************************************************************)
S == [status |-> status, queue |-> queue, tasks |-> tasks, taskMap |-> taskMap,
      fetchTimer |-> fetchTimer, isTaskProcessing |-> isTaskProcessing,
      fetchCount |-> fetchCount]

Range(q) == {q[k] : k \in 1..Len(q)}

\* objects no longer referenced by the queue or by a loop are collected
Collect(tk, q, c) ==
  [id \in TaskIds |->
     IF id \in Range(q) \/ (\E i \in Slots : c[i] = id) THEN tk[id] ELSE FreeTask]

Commit(s, newCur) ==
  /\ status' = s.status
  /\ queue' = s.queue
  /\ tasks' = Collect(s.tasks, s.queue, newCur)
  /\ taskMap' = s.taskMap
  /\ fetchTimer' = s.fetchTimer
  /\ isTaskProcessing' = s.isTaskProcessing
  /\ fetchCount' = s.fetchCount
  /\ cur' = newCur

setStatus(s, id, st) == [s EXCEPT !.tasks[id].status = st]

\* addTask with the duplicate check left out
addTask_NoDedup(s, r) ==
  LET free == {id \in TaskIds : s.tasks[id].status = "free"} IN
  IF free = {} THEN s
  ELSE LET id == CHOOSE x \in free : \A y \in free : x <= y IN
       [s EXCEPT !.queue = Append(@, id),
                 !.tasks[id] = [recordId |-> r, status |-> "pending"],
                 !.taskMap[r] = id]

\* addTask: refuses a record the map already holds
addTask(s, r) ==
  LET free == {id \in TaskIds : s.tasks[id].status = "free"} IN
  IF s.taskMap[r] # NoTask \/ free = {} THEN s
  ELSE LET id == CHOOSE x \in free : \A y \in free : x <= y IN
       [s EXCEPT !.queue = Append(@, id),
                 !.tasks[id] = [recordId |-> r, status |-> "pending"],
                 !.taskMap[r] = id]

\* cleanup filtering the queue without deleting from the map
cleanup_KeepsMap(s) ==
  [s EXCEPT !.queue = SelectSeq(@, LAMBDA id :
                        s.tasks[id].status \notin {"completed", "skipped"})]

\* cleanup: sweeps completed and skipped tasks out of the queue and the map
cleanup(s) ==
  LET gone(id) == s.tasks[id].status \in {"completed", "skipped"}
      goneRecs == {s.tasks[id].recordId : id \in {x \in Range(s.queue) : gone(x)}}
  IN [s EXCEPT !.queue = SelectSeq(@, LAMBDA id : ~gone(id)),
               !.taskMap = [r \in Records |-> IF r \in goneRecs THEN NoTask ELSE @[r]]]

\* tasks.sort by date, ascending
RECURSIVE sortByDate(_)
sortByDate(rs) ==
  IF rs = {} THEN <<>>
  ELSE LET r == CHOOSE x \in rs : \A y \in rs : DateOf(x) <= DateOf(y)
       IN <<r>> \o sortByDate(rs \ {r})

\* the addTask loop of fetchAndEnqueueTasks: the state after it and totalAdded
RECURSIVE enqueueAll(_, _)
enqueueAll(s, rs) ==
  IF rs = <<>> THEN [s |-> s, count |-> 0]
  ELSE LET s1 == addTask(s, Head(rs))
           rest == enqueueAll(s1, Tail(rs))
       IN [s |-> rest.s,
           count |-> rest.count + (IF Len(s1.queue) > Len(s.queue) THEN 1 ELSE 0)]

\* the synchronous head of fetchAndEnqueueTasks, up to its first await
fetchBegin(s) == [cleanup(s) EXCEPT !.fetchCount = @ + 1]

\* the rest of fetchAndEnqueueTasks, once getPendingUploadDramas has answered
\* with the records `items` (none when the query failed): the tasks are
\* sorted by date and added; the state after it and totalAdded
fetchEnd(s, items) == enqueueAll(s, sortByDate(items))

\* startScheduledFetching arming nothing
startScheduledFetching_Never(s) == s

startScheduledFetching(s) == IF s.fetchTimer THEN s ELSE [s EXCEPT !.fetchTimer = TRUE]

stopScheduledFetching(s) == [s EXCEPT !.fetchTimer = FALSE]

\* getNextTask looking at the head of the queue only
getNextTask_HeadOnly(s) ==
  IF s.queue # <<>> /\ s.tasks[Head(s.queue)].status = "pending"
  THEN Head(s.queue) ELSE NoTask

getNextTask(s) ==
  LET pend == {k \in 1..Len(s.queue) : s.tasks[s.queue[k]].status = "pending"} IN
  IF pend = {} THEN NoTask
  ELSE s.queue[CHOOSE k \in pend : \A j \in pend : k <= j]

\* one pass of the while loop of processQueue up to its first await: the
\* loop ends, sleeps 5 s, or enters processTask (which marks the task running)
loopTop(s) ==
  IF s.status # "running" THEN [s |-> s, pc |-> "idle", cur |-> NoTask]
  ELSE LET t == getNextTask(s) IN
       IF t = NoTask THEN [s |-> s, pc |-> "sleep", cur |-> NoTask]
       ELSE [s |-> setStatus([s EXCEPT !.isTaskProcessing = TRUE], t, "running"),
             pc |-> "scan", cur |-> t]

\* onTaskComplete with the skipped flag ignored: always re-fetches
onTaskComplete_AlwaysFetch(s, taskSkipped) ==
  [s |-> fetchBegin([s EXCEPT !.isTaskProcessing = FALSE]), pc |-> "complete_fetch"]

\* onTaskComplete up to its first await
onTaskComplete(s, taskSkipped) ==
  LET s1 == [s EXCEPT !.isTaskProcessing = FALSE] IN
  IF taskSkipped THEN [s |-> startScheduledFetching(s1), pc |-> "delay"]
  ELSE [s |-> fetchBegin(s1), pc |-> "complete_fetch"]

\* processTask when the scan found no file of the drama: marked failed
markNoFiles_Failed(s, id) == setStatus(s, id, "failed")

\* processTask when the scan found no file of the drama
markNoFiles(s, id) == setStatus(s, id, "skipped")

\* updateFeishuRecordStatus: the table after the call, which may fail
updateFeishuRecordStatus(rem, r, st, ok) == IF ok THEN [rem EXCEPT ![r] = st] ELSE rem

(***************************************************************************)
(* The batch uploader (JuliangService).                                    *)
(***************************************************************************)

\* bounds: the files of a task, and the indicators the surface may show
\* beyond the files of a batch
MaxFiles == 3
MaxExtra == 1

\* the records whose dramas are uploaded
UploadRecords == {"r1"}

\* values of config.batchSize (updateConfig may set any)
BatchSizes == {1, 2}

\* uploadBatch: const maxRetries = 10
maxRetries == 10
\* uploadBatchInternal: const maxWaitTime = 600000 (ms)
maxWaitTime == 600000
\* uploadBatchInternal: elapsedTime > 20000 (ms) opens the early exit
earlyExitTime == 20000

\* Date.now() - startTime as the polling loop reads it: after the first wait
\* of 5-6 s, after a further poll interval of 30 s, and at the ceiling.  Each
\* reading of the loop is any of these that is not earlier than the last.
Readings == {6000, 36000, 600000}

\* the result of a batch ({success, successCount}); NoResult when none yet
Result(ok, k) == [success |-> ok, successCount |-> k]
NoResult == Result(FALSE, -1)

\* a checkpoint of the store; NoCkpt is getProgress's null
Ckpt(total, completed) == [totalBatches |-> total, completedBatches |-> completed]
NoCkpt == Ckpt(0, 0)

\* JuliangProgressManager
getProgress(store, recordId) == store[recordId]
updateProgress_Swapped(store, recordId, total, completed) ==
  [store EXCEPT ![recordId] = Ckpt(completed, total)]
updateProgress(store, recordId, total, completed) ==
  [store EXCEPT ![recordId] = Ckpt(total, completed)]
clearProgress(store, recordId) == [store EXCEPT ![recordId] = NoCkpt]

\* an uploadTask invocation that is not running
UploadIdle ==
  [pc |-> "idle", recordId |-> "", files |-> 0, batchSize |-> 0,
   totalBatches |-> 0, stale |-> FALSE, matched |-> -1, startBatchIndex |-> 0,
   i |-> 0, retry |-> 0, totalSuccess |-> 0, attempted |-> {},
   clock |-> 0, sawAll |-> FALSE, lateShort |-> -1,
   pending |-> NoResult, confirms |-> 0, cancels |-> 0, confirmFailed |-> FALSE,
   aborted |-> FALSE, timedOut |-> FALSE, attemptResult |-> NoResult, best |-> 0,
   batchResult |-> NoResult, batchThrew |-> FALSE, result |-> NoResult]

\* the uploader's state as one value: the invocation and the store
W == [u |-> upl, progress |-> progress, covered |-> covered]

\* batches.length: the slices of batchSize files
batchCount(files, batchSize) == (files + batchSize - 1) \div batchSize

\* batches[i].length
batchLen_Full(u) == u.batchSize

batchLen(u) ==
  IF (u.i + 1) * u.batchSize <= u.files THEN u.batchSize
  ELSE u.files - u.i * u.batchSize

\* batches[i]: the positions in task.files of the files of the batch
batchFiles(u) == (u.i * u.batchSize + 1)..(u.i * u.batchSize + batchLen(u))

\* the locals of uploadBatchInternal before an attempt
attemptLocals(w) ==
  [w EXCEPT !.u.clock = 0, !.u.sawAll = FALSE, !.u.lateShort = -1,
            !.u.pending = NoResult,
            !.u.confirms = 0, !.u.cancels = 0, !.u.confirmFailed = FALSE,
            !.u.aborted = FALSE, !.u.timedOut = FALSE,
            !.u.attemptResult = NoResult]

\* uploadBatchInternal returns res; uploadBatch resumes in the same task
return(w, res) ==
  [w EXCEPT !.u.pc = "returned", !.u.attemptResult = res, !.u.pending = NoResult,
            !.u.clock = 0]

\* uploadTask: the batch to start from, given the checkpoint read
startIndex_FromZero(savedProgress, totalBatches) == 0

startIndex_AnyPlan(savedProgress, totalBatches) ==
  IF savedProgress # NoCkpt THEN savedProgress.completedBatches ELSE 0

startIndex(savedProgress, totalBatches) ==
  IF savedProgress # NoCkpt /\ savedProgress.totalBatches = totalBatches
  THEN savedProgress.completedBatches ELSE 0

\* uploadTask returns res to its caller
taskReturn(w, res) == [w EXCEPT !.u.pc = "idle", !.u.result = res]

\* uploadTask after its loop: the 90% rule, the checkpoint cleared
taskFinish(w) ==
  taskReturn([w EXCEPT !.progress = clearProgress(@, w.u.recordId)],
             Result(w.u.totalSuccess * 10 >= w.u.files * 9, w.u.totalSuccess))

\* uploadBatch threw (its last retry's error): uploadTask's catch
batchThrow(w) ==
  taskReturn([w EXCEPT !.u.batchResult = NoResult, !.u.batchThrew = TRUE],
             Result(FALSE, 0))

\* what uploadBatch returns once its retries are used up
exhausted_BestPartial(u) == Result(FALSE, u.best)

exhausted(u) == Result(FALSE, 0)

\* the polling loop's decision on an observation made at elapsed time t:
\* the next position and the result it is about to return
decide_StaleFinalCount(files, progressCount, successCount, t) ==
  IF progressCount = 0 THEN [pc |-> "poll", pending |-> NoResult]
  ELSE IF progressCount < files /\ t > earlyExitTime
    THEN [pc |-> "cancel", pending |-> Result(FALSE, progressCount)]
  ELSE IF successCount = progressCount /\ successCount > 0
    THEN IF progressCount < files
         THEN [pc |-> "cancel", pending |-> Result(FALSE, 0)]
         ELSE [pc |-> "confirm", pending |-> Result(TRUE, 0)]
  ELSE [pc |-> "poll", pending |-> NoResult]

decide_NoEarlyExit(files, progressCount, successCount, t) ==
  IF progressCount = 0 THEN [pc |-> "poll", pending |-> NoResult]
  ELSE IF successCount = progressCount /\ successCount > 0
    THEN IF progressCount < files
         THEN [pc |-> "cancel", pending |-> Result(FALSE, successCount)]
         ELSE [pc |-> "confirm", pending |-> Result(TRUE, successCount)]
  ELSE [pc |-> "poll", pending |-> NoResult]

decide(files, progressCount, successCount, t) ==
  IF progressCount = 0 THEN [pc |-> "poll", pending |-> NoResult]
  ELSE IF progressCount < files /\ t > earlyExitTime
    THEN [pc |-> "cancel", pending |-> Result(FALSE, progressCount)]
  ELSE IF successCount = progressCount /\ successCount > 0
    THEN IF progressCount < files
         THEN [pc |-> "cancel", pending |-> Result(FALSE, successCount)]
         ELSE [pc |-> "confirm", pending |-> Result(TRUE, successCount)]
  ELSE [pc |-> "poll", pending |-> NoResult]

RECURSIVE beginBatch(_, _), afterThrow(_, _)

\* uploadBatchInternal is entered: without a page it returns {false, 0};
\* otherwise it awaits the upload button, the panel and the file chooser
beginAttempt(w, pg) ==
  IF pg THEN [attemptLocals(w) EXCEPT !.u.pc = "trigger"]
  ELSE return(attemptLocals(w), Result(FALSE, 0))

\* a retry that moves on to the next batch of the list
startIteration_Advance(w, pg) ==
  IF pg THEN [attemptLocals(w) EXCEPT
                !.u.pc = "reload",
                !.u.i = IF @ + 1 < w.u.totalBatches THEN @ + 1 ELSE @]
  ELSE afterThrow(w, pg)

\* uploadBatch's next iteration (retry > 0): reload the page first; without
\* a page the call throws at once
startIteration(w, pg) ==
  IF pg THEN [attemptLocals(w) EXCEPT !.u.pc = "reload"] ELSE afterThrow(w, pg)

\* uploadBatch's catch: an iteration threw
afterThrow(w, pg) ==
  IF w.u.retry < maxRetries - 1
  THEN startIteration([w EXCEPT !.u.retry = @ + 1], pg)
  ELSE batchThrow(w)

\* uploadTask: the completed batches saved when batches[i] failed
failedCheckpoint_Next(u) == u.i + 1

failedCheckpoint(u) == u.i

\* uploadBatch returned res to uploadTask
batchEnd(w, res, pg) ==
  LET u == w.u
      w1 == [w EXCEPT !.u.batchResult = res, !.u.batchThrew = FALSE]
  IN IF res.success
     THEN LET w2 == [w1 EXCEPT
                       !.u.totalSuccess = @ + res.successCount,
                       !.progress = updateProgress(@, u.recordId, u.totalBatches, u.i + 1),
                       !.covered[u.recordId] = @ \cup batchFiles(u)]
          IN IF u.i + 1 < u.totalBatches
             THEN beginBatch([w2 EXCEPT !.u.i = @ + 1], pg)
             ELSE taskFinish(w2)
     ELSE taskReturn(
            [w1 EXCEPT !.progress = updateProgress(@, u.recordId, u.totalBatches,
                                                   failedCheckpoint(u))],
            Result(FALSE, u.totalSuccess))

\* uploadTask calls uploadBatch for batches[i]
beginBatch(w, pg) ==
  LET w1 == [w EXCEPT !.u.attempted = @ \cup {w.u.i}, !.u.retry = 0, !.u.best = 0]
  IN IF ~pg THEN batchEnd(w1, Result(FALSE, 0), pg)
     ELSE beginAttempt(w1, pg)

\* uploadBatch repeating a timed-out attempt without counting it
attemptEnd_TimeoutFree(w, pg) ==
  LET res == w.u.attemptResult
  IN IF res.success THEN batchEnd(w, res, pg)
     ELSE IF w.u.timedOut THEN startIteration(w, pg)
     ELSE IF w.u.retry < maxRetries - 1
       THEN startIteration([w EXCEPT !.u.retry = @ + 1], pg)
     ELSE batchEnd(w, exhausted(w.u), pg)

\* uploadBatch resumes with the result of uploadBatchInternal
attemptEnd(w, pg) ==
  LET res == w.u.attemptResult
      w1 == [w EXCEPT !.u.best = IF res.successCount > @ THEN res.successCount ELSE @]
  IN IF res.success THEN batchEnd(w1, res, pg)
     ELSE IF w1.u.retry < maxRetries - 1
       THEN startIteration([w1 EXCEPT !.u.retry = @ + 1], pg)
     ELSE batchEnd(w1, exhausted(w1.u), pg)

\* uploadTask once the upload page is reached: the plan, the checkpoint, the
\* first batch
planAndStart(w, pg) ==
  LET u == w.u
      total == batchCount(u.files, u.batchSize)
      saved == getProgress(w.progress, u.recordId)
      start == startIndex(saved, total)
      w1 == [w EXCEPT !.u.totalBatches = total,
                      !.u.stale = (saved # NoCkpt /\ saved.totalBatches # total),
                      !.u.matched = IF saved # NoCkpt /\ saved.totalBatches = total
                                    THEN saved.completedBatches ELSE -1,
                      !.u.startBatchIndex = start, !.u.i = start,
                      !.u.totalSuccess = start * u.batchSize,
                      !.covered[u.recordId] = IF start = 0 THEN {} ELSE @]
  IN IF start < total THEN beginBatch(w1, pg) ELSE taskFinish(w1)

(***************************************************************************)
(* The download page (Download.vue): the worker pool of startDownload, the *)
(* per-item operations of the user, and the transfers of the main          *)
(* process (DownloadService).  One startDownload run is modelled: its      *)
(* queue is the shared queue.                                              *)
(***************************************************************************)
\* downloadTasks, in list order
Items == {"a", "b"}
ItemOrder == <<"a", "b">>
NoItem == "-"

\* the worker(i, queue) invocations of startDownload
Workers == {"w1", "w2"}
WorkerIndex(w) == IF w = "w1" THEN 1 ELSE 2

\* values of the "parallel downloads" input
Concurrencies == {1, 2}

STALL_TIMEOUT == 120000
MAX_RETRIES == 3
\* the period of stallCheckInterval
stallCheckPeriod == 10000

\* Date.now() - task.lastProgressUpdate as the stall check can read it
Ages == {0, STALL_TIMEOUT, STALL_TIMEOUT + stallCheckPeriod}

\* parseFloat(progress.percent) of a progress event
Percents == {50}

\* the items whose buttons the user operates
ClickedItems == {"a"}

\* who awaits a transfer of an item: the pool (downloadSingleTask) or a
\* chain started by the user (retryDownload, resumeDownload)
Kinds == {"pool", "user"}

\* task.error: undefined (""), or which failure wrote it
DownloadTask(st, pr, rc) ==
  [status |-> st, progress |-> pr, retryCount |-> rc, error |-> ""]

\* const AUTO_RETRY_MAX = 5
AUTO_RETRY_MAX == 5

\* the attempts the pool can make on one item: the first and MAX_RETRIES more
AttemptIds == 1..(MAX_RETRIES + 1)
NoAttempt == 0

\* an attempt nothing has happened to
FreshAttempt == [page |-> "none", isStalled |-> FALSE, cancelSent |-> FALSE,
                 main |-> "none", retryCount |-> 0]

\* bound: the automatic retries of downloadWithRetry in one behaviour, all
\* attempts together
MaxAutoRetries == 2

\* the page and DownloadService before the first attempt on the item
CancelIdle ==
  /\ attempts = [n \in AttemptIds |-> FreshAttempt]
  /\ ipcQueue = <<>>
  /\ cancelledDownloads = FALSE
  /\ activeRequest = NoAttempt

\* the fields of DownloadService for the item's name, with the attempts
D == [attempts |-> attempts, cancelledDownloads |-> cancelledDownloads,
      activeRequest |-> activeRequest]

CommitD(d) ==
  /\ attempts' = d.attempts
  /\ cancelledDownloads' = d.cancelledDownloads
  /\ activeRequest' = d.activeRequest

\* downloadFile leaving the cancel mark of the name in place
clearMark_Keeps(d) == d

\* downloadFile: this.cancelledDownloads.delete(dramaName)
clearMark(d) == [d EXCEPT !.cancelledDownloads = FALSE]

\* downloadFileInternal: the request is made and registered under the name
startRequest(d, n) ==
  [d EXCEPT !.attempts[n].main = "active", !.activeRequest = n]

\* the catch block of downloadWithRetry up to its return or its wait
retryCatch(d, n, retryable) ==
  IF d.cancelledDownloads
  THEN [d EXCEPT !.cancelledDownloads = FALSE, !.attempts[n].main = "cancelled"]
  ELSE IF retryable /\ d.attempts[n].retryCount < AUTO_RETRY_MAX
  THEN [d EXCEPT !.attempts[n].main = "wait", !.attempts[n].retryCount = @ + 1]
  ELSE [d EXCEPT !.attempts[n].main = "failed"]

\* DownloadService.cancelDownload: the mark, then the request registered
\* under the name is destroyed and unregistered
serviceCancel(d) ==
  LET k == d.activeRequest
      d1 == [d EXCEPT !.cancelledDownloads = TRUE, !.activeRequest = NoAttempt]
  IN IF k # NoAttempt /\ d.attempts[k].main = "active"
     THEN [d1 EXCEPT !.attempts[k].main = "destroyed"]
     ELSE d1

\* the extractZip calls of the model and where the promise of a call stands
ZipCalls == {1, 2, 3}
ZipStates == {"none", "queued", "extracting", "resolved", "rejected"}

\* bound: the setImmediate callbacks that may be pending at once
MaxImmediates == 2

\* FileService after construction
FileIdle ==
  /\ extractQueue = <<>>
  /\ isExtracting = FALSE
  /\ extractCalls = [c \in ZipCalls |-> "none"]
  /\ immediates = 0

\* the fields of FileService as one value
F == [extractQueue |-> extractQueue, isExtracting |-> isExtracting,
      extractCalls |-> extractCalls]

CommitF(f) ==
  /\ extractQueue' = f.extractQueue
  /\ isExtracting' = f.isExtracting
  /\ extractCalls' = f.extractCalls

\* processExtractQueue starting whatever is queued, whether or not an
\* extraction is under way
processExtractQueue_NoFlag(f) ==
  IF f.extractQueue = <<>> THEN f
  ELSE [f EXCEPT !.isExtracting = TRUE,
                 !.extractQueue = Tail(@),
                 !.extractCalls[Head(f.extractQueue)] = "extracting"]

\* processExtractQueue up to its await of extractZipInternal
processExtractQueue(f) ==
  IF f.isExtracting \/ f.extractQueue = <<>> THEN f
  ELSE [f EXCEPT !.isExtracting = TRUE,
                 !.extractQueue = Tail(@),
                 !.extractCalls[Head(f.extractQueue)] = "extracting"]

\* no second run: its workers and its own queue
NoSecondRun == [workers |-> {}, queue |-> <<>>]

PoolIdle ==
  /\ downloadTasks = [it \in Items |-> DownloadTask("pending", 0, 0)]
  /\ poolQueue = <<>>
  /\ concurrentDownloads = 1
  /\ downloading = "ready"
  /\ worker = [w \in Workers |-> [pc |-> "idle", task |-> NoItem, isStalled |-> FALSE]]
  /\ userOp = [it \in Items |-> "idle"]
  /\ transfer = [it \in Items |-> [k \in Kinds |-> "none"]]
  /\ activeDownloads = [it \in Items |-> "none"]
  /\ ahead = [it \in Items |-> {}]
  /\ retried = {}
  /\ secondRun = NoSecondRun

\* hasDownloadingTasks / downloadingCount
downloadingCount == Cardinality({it \in Items : downloadTasks[it].status = "downloading"})
hasDownloadingTasks == downloadingCount > 0

\* the requests of the main process that are on the network
Outstanding == {<<it, k>> \in Items \X Kinds : transfer[it][k] = "active"}

Min(a, b) == IF a < b THEN a ELSE b

\* queue.push(task) of the stall branch
requeue_Front(q, it) == <<it>> \o q

\* the stall branch without its queue.push
requeue_Drop(q, it) == q

requeue(q, it) == Append(q, it)

\* task.retryCount < MAX_RETRIES
canRetry_Always(t) == TRUE

canRetry(t) == t.retryCount < MAX_RETRIES

\* the stall branch's update of the task
stallRetry(t) ==
  [t EXCEPT !.retryCount = @ + 1, !.status = "pending", !.progress = 0, !.error = ""]

\* the catch block taking no attempt for the user's own pause or cancel
isUserAction_Never(t) == FALSE

\* isUserAction of the catch blocks, for the error messages the main process
\* can produce ("下载失败", "下载停滞...")
isUserAction(t) == t.status \in {"paused", "cancelled"}

\* DownloadService.cancelDownload / pauseDownload: the registered request of
\* dramaName is destroyed
Main == [transfer |-> transfer, activeDownloads |-> activeDownloads]

mainCancel_All(m, it) ==
  [transfer |-> [x \in Items |-> [k \in Kinds |->
                   IF m.transfer[x][k] = "active" THEN "destroyed" ELSE m.transfer[x][k]]],
   activeDownloads |-> [x \in Items |-> "none"]]

mainCancel(m, it) ==
  IF m.activeDownloads[it] = "none" THEN m
  ELSE [transfer |-> [m.transfer EXCEPT ![it][m.activeDownloads[it]] = "destroyed"],
        activeDownloads |-> [m.activeDownloads EXCEPT ![it] = "none"]]

\* DownloadService.downloadFileInternal registers the request
mainStart(m, it, k) ==
  [transfer |-> [m.transfer EXCEPT ![it][k] = "active"],
   activeDownloads |-> [m.activeDownloads EXCEPT ![it] = k]]

\* the request ended: its handlers delete the registration of dramaName
mainEnd(m, it, k) ==
  [transfer |-> [m.transfer EXCEPT ![it][k] = "none"],
   activeDownloads |-> IF m.transfer[it][k] = "active"
                       THEN [m.activeDownloads EXCEPT ![it] = "none"]
                       ELSE m.activeDownloads]

CommitMain(m) == transfer' = m.transfer /\ activeDownloads' = m.activeDownloads

\* the queue argument of worker(i, queue): the queue of the run that made w
queueOf(w) == IF w \in secondRun.workers THEN secondRun.queue ELSE poolQueue

\* the workers of the run that made w
sameRun(w) ==
  IF w \in secondRun.workers THEN secondRun.workers ELSE Workers \ secondRun.workers

\* a write to the queue of the run that made w
CommitQueue(w, q) ==
  IF w \in secondRun.workers
  THEN secondRun' = [secondRun EXCEPT !.queue = q] /\ poolQueue' = poolQueue
  ELSE poolQueue' = q /\ secondRun' = secondRun

(***************************************************************************)
(* The object-storage uploader (TosService): uploadBatch with its inner    *)
(* processQueue, uploadFile, cancelUpload and cancelAllUploads.  A file    *)
(* that does not exist on disk is left out.                                *)
(***************************************************************************)
\* the file lists the page hands to uploadBatch, by base name
TosFiles == {"f1", "f2"}
FileLists == {<<"f1">>, <<"f1", "f2">>}

\* the values of maxConcurrent the page passes
TosConcurrencies == {1, 2}

\* private maxConcurrentUploads = 5
defaultMaxConcurrentUploads == 5

\* identities of the uploadFile invocations alive at once
UploadIds == {1, 2, 3}
NoUpload == 0
FreeUpload == [file |-> "", phase |-> "free"]

\* bound: the calls of uploadBatch that await initTosClient at once
MaxPendingBatches == 2

TosIdle ==
  /\ uploadQueue = <<>>
  /\ uploadingCount = 0
  /\ maxConcurrentUploads = defaultMaxConcurrentUploads
  /\ uploadCancelTokens = [f \in TosFiles |-> NoUpload]
  /\ activeUploads = {}
  /\ uploads = [id \in UploadIds |-> FreeUpload]
  /\ batchInits = 0
  /\ uploadResult = [f \in TosFiles |-> "none"]

\* the service's fields as one value
T == [uploadQueue |-> uploadQueue, uploadingCount |-> uploadingCount,
      maxConcurrentUploads |-> maxConcurrentUploads,
      uploadCancelTokens |-> uploadCancelTokens, activeUploads |-> activeUploads,
      uploads |-> uploads]

CommitT(t) ==
  /\ uploadQueue' = t.uploadQueue
  /\ uploadingCount' = t.uploadingCount
  /\ maxConcurrentUploads' = t.maxConcurrentUploads
  /\ uploadCancelTokens' = t.uploadCancelTokens
  /\ activeUploads' = t.activeUploads
  /\ uploads' = t.uploads

freeUploads(t) == {id \in UploadIds : t.uploads[id].phase = "free"}

\* the number of files one call of processQueue takes from the queue
taken(t) ==
  IF t.uploadingCount < t.maxConcurrentUploads
  THEN Min(Len(t.uploadQueue), t.maxConcurrentUploads - t.uploadingCount)
  ELSE 0

\* processQueue: while the queue holds a file and the counter is below the
\* limit, the file is shifted, the counter incremented and uploadFile called,
\* which runs up to its await of initTosClient
RECURSIVE processQueue(_)
processQueue(t) ==
  IF Len(t.uploadQueue) > 0 /\ t.uploadingCount < t.maxConcurrentUploads
     /\ freeUploads(t) # {}
  THEN LET id == CHOOSE x \in freeUploads(t) : \A y \in freeUploads(t) : x <= y
       IN processQueue(
            [t EXCEPT !.uploadQueue = Tail(@),
                      !.uploadingCount = @ + 1,
                      !.uploads[id] = [file |-> Head(t.uploadQueue), phase |-> "init"]])
  ELSE t

\* an uploadFile invocation ends: its clean-up, by file name, then the
\* finally block of processQueue
settle(t, id) ==
  LET f == t.uploads[id].file
      t1 == [t EXCEPT !.uploads[id] = FreeUpload,
                      !.uploadCancelTokens[f] = NoUpload,
                      !.activeUploads = @ \ {f},
                      !.uploadingCount = @ - 1]
  IN IF Len(t1.uploadQueue) > 0 THEN processQueue(t1) ELSE t1

\* cancelUpload(fileName) when a token is registered under the name
cancelUpload(t, f) ==
  [t EXCEPT !.uploads[t.uploadCancelTokens[f]].phase = "cancelled",
            !.uploadCancelTokens[f] = NoUpload,
            !.activeUploads = @ \ {f}]

cancelAllUploads(t) ==
  LET held == {t.uploadCancelTokens[f] : f \in TosFiles} \ {NoUpload} IN
  [t EXCEPT !.uploads = [id \in UploadIds |->
                           IF id \in held THEN [@[id] EXCEPT !.phase = "cancelled"]
                           ELSE @[id]],
            !.uploadCancelTokens = [f \in TosFiles |-> NoUpload],
            !.activeUploads = @ \ {f \in TosFiles : t.uploadCancelTokens[f] # NoUpload},
            !.uploadQueue = <<>>,
            !.uploadingCount = 0]

\* the uploadFile invocations whose request is on the network
InFlight == {id \in UploadIds : uploads[id].phase = "transfer"}

(***************************************************************************)
(* Initial state: the service as constructed, any tracking table and disk. *)
(***************************************************************************)
SchedInit ==
  /\ status = "idle"
  /\ queue = <<>>
  /\ tasks = [id \in TaskIds |-> FreeTask]
  /\ taskMap = [r \in Records |-> NoTask]
  /\ fetchTimer = FALSE
  /\ isTaskProcessing = FALSE
  /\ fetchCount = 0
  /\ pc = [c \in Ctx |-> "idle"]
  /\ cur = [c \in Ctx |-> NoTask]
  /\ closePc = "idle"
  /\ startError = ""
  /\ page = FALSE
  /\ isCancelled = FALSE

Init ==
  /\ SchedInit
  /\ PoolIdle
  /\ TosIdle
  /\ FileIdle
  /\ CancelIdle
  /\ remote \in [Records -> {StPending, StReady}]
  /\ localFiles \in [Records -> BOOLEAN]
  /\ initPc = "idle"
  /\ upl = UploadIdle
  /\ progress = [r \in Records |-> NoCkpt]
  /\ covered = [r \in Records |-> {}]

\* a context awaiting the backend's answer; "_err" when the query is going to
\* fail (non-zero code or an exception)
FetchPcs == {"start_fetch", "complete_fetch", "timer_fetch"}
FetchErrPcs == {"start_fetch_err", "complete_fetch_err", "timer_fetch_err"}
awaitQuery(p, fails) == IF fails THEN p \o "_err" ELSE p

\* getPendingUploadDramas answering with records although the query failed
queryResult_IgnoresFailure(c) == {r \in Records : remote[r] = StPending}

\* what getPendingUploadDramas returns to a context: the records awaiting
\* upload, or nothing when the query failed
queryResult(c) ==
  IF pc[c] \in FetchPcs THEN {r \in Records : remote[r] = StPending} ELSE {}

(***************************************************************************)
(* start()                                                                 *)
(***************************************************************************)
\* the errors start() returns
ErrNoRootDir == "root directory not set"
ErrInitFailed == "initialize failed"
ErrNeedLogin == "not logged in"

\* start() with no localRootDir in the configuration: the error is returned
\* before initialize() is called
StartNoRootDir(i) ==
  /\ pc[i] = "idle"
  /\ \A j \in Slots : j < i => pc[j] # "idle"
  /\ status # "running"
  /\ startError' = ErrNoRootDir
  /\ UNCHANGED <<status, queue, tasks, taskMap, fetchTimer, isTaskProcessing,
                 fetchCount, pc, cur, closePc, envVars, browserVars, uploadVars>>
  /\ UNCHANGED <<poolVars, tosVars, fileVars, cancelVars>>

\* start() with localRootDir configured: the status check, loadConfig and the
\* call of initialize(), which resets the cancel flag before its first await
StartCall(i) ==
  /\ pc[i] = "idle"
  /\ \A j \in Slots : j < i => pc[j] # "idle"
  /\ status # "running"
  /\ pc' = [pc EXCEPT ![i] = "start_init"]
  /\ isCancelled' = FALSE
  /\ startError' = ""
  /\ UNCHANGED <<status, queue, tasks, taskMap, fetchTimer, isTaskProcessing,
                 fetchCount, cur, closePc, page, envVars, uploadVars>>
  /\ UNCHANGED <<poolVars, tosVars, fileVars, cancelVars>>

\* initialize() failed: start() returns the error
StartInitFailed(i) ==
  /\ pc[i] = "start_init"
  /\ pc' = [pc EXCEPT ![i] = "idle"]
  /\ startError' = ErrInitFailed
  /\ UNCHANGED <<status, queue, tasks, taskMap, fetchTimer, isTaskProcessing,
                 fetchCount, cur, closePc, envVars, browserVars, uploadVars>>
  /\ UNCHANGED <<poolVars, tosVars, fileVars, cancelVars>>

\* the browser is up but not logged in, start() going on regardless
StartNeedLogin_Proceeds(i) ==
  /\ pc[i] = "start_init"
  /\ fetchCount < MaxFetches
  /\ Commit(fetchBegin([S EXCEPT !.status = "running"]), cur)
  /\ pc' = [pc EXCEPT ![i] = "start_fetch"]
  /\ page' = TRUE
  /\ startError' = ErrNeedLogin
  /\ UNCHANGED <<closePc, envVars, isCancelled, uploadVars>>
  /\ UNCHANGED <<poolVars, tosVars, fileVars, cancelVars>>

\* the browser is up but not logged in: start() returns the error
StartNeedLogin(i) ==
  /\ pc[i] = "start_init"
  /\ pc' = [pc EXCEPT ![i] = "idle"]
  /\ page' = TRUE
  /\ startError' = ErrNeedLogin
  /\ UNCHANGED <<status, queue, tasks, taskMap, fetchTimer, isTaskProcessing,
                 fetchCount, cur, closePc, envVars, isCancelled, uploadVars>>
  /\ UNCHANGED <<poolVars, tosVars, fileVars, cancelVars>>

\* initialised and logged in: status running, the first fetch cycle begins
StartRunning(i) ==
  /\ pc[i] = "start_init"
  /\ fetchCount < MaxFetches
  /\ Commit(fetchBegin([S EXCEPT !.status = "running"]), cur)
  /\ \E fails \in BOOLEAN : pc' = [pc EXCEPT ![i] = awaitQuery("start_fetch", fails)]
  /\ page' = TRUE
  /\ startError' = ""
  /\ UNCHANGED <<closePc, envVars, isCancelled, uploadVars>>
  /\ UNCHANGED <<poolVars, tosVars, fileVars, cancelVars>>

\* the first fetch returned: arm the timer when nothing was added, then the
\* first pass of processQueue
StartFetched(i) ==
  /\ pc[i] \in {"start_fetch", "start_fetch_err"}
  /\ \E res \in {fetchEnd(S, queryResult(i))} :
       \E s2 \in {IF res.count = 0 THEN startScheduledFetching(res.s) ELSE res.s} :
         \E top \in {loopTop(s2)} :
           /\ Commit(top.s, [cur EXCEPT ![i] = top.cur])
           /\ pc' = [pc EXCEPT ![i] = top.pc]
  /\ UNCHANGED <<closePc, envVars, browserVars, uploadVars>>
  /\ UNCHANGED <<startError, poolVars, tosVars, fileVars, cancelVars>>

(***************************************************************************)
(* stop()                                                                  *)
(***************************************************************************)
\* stop() returning the scheduler to idle
StopCall_ToIdle ==
  /\ status = "running"
  /\ closePc = "idle"
  /\ Commit(stopScheduledFetching([S EXCEPT !.status = "idle"]), cur)
  /\ closePc' = "closing"
  /\ isCancelled' = TRUE
  /\ UNCHANGED <<pc, page, envVars, uploadVars>>
  /\ UNCHANGED <<startError, poolVars, tosVars, fileVars, cancelVars>>

\* stop() up to the await inside close(), which sets the cancel flag first
StopCall ==
  /\ status = "running"
  /\ closePc = "idle"
  /\ Commit(stopScheduledFetching([S EXCEPT !.status = "stopped"]), cur)
  /\ closePc' = "closing"
  /\ isCancelled' = TRUE
  /\ UNCHANGED <<pc, page, envVars, uploadVars>>
  /\ UNCHANGED <<startError, poolVars, tosVars, fileVars, cancelVars>>

\* close() finished: the page and the context are gone
StopClosed ==
  /\ closePc = "closing"
  /\ closePc' = "idle"
  /\ page' = FALSE
  /\ UNCHANGED <<status, queue, tasks, taskMap, fetchTimer, isTaskProcessing,
                 fetchCount, pc, cur, envVars, isCancelled, uploadVars>>
  /\ UNCHANGED <<startError, poolVars, tosVars, fileVars, cancelVars>>

(***************************************************************************)
(* the periodic timer and onTaskComplete's fetch                           *)
(***************************************************************************)
\* the interval callback: skipped while a task is processed, else it fetches
TimerFire ==
  /\ fetchTimer
  /\ pc[0] = "idle"
  /\ ~isTaskProcessing
  /\ fetchCount < MaxFetches
  /\ Commit(fetchBegin(S), cur)
  /\ \E fails \in BOOLEAN : pc' = [pc EXCEPT ![0] = awaitQuery("timer_fetch", fails)]
  /\ UNCHANGED <<closePc, envVars, browserVars, uploadVars>>
  /\ UNCHANGED <<startError, poolVars, tosVars, fileVars, cancelVars>>

\* the interval callback after its fetch: new tasks stop the timer
TimerFetched ==
  /\ pc[0] \in {"timer_fetch", "timer_fetch_err"}
  /\ \E res \in {fetchEnd(S, queryResult(0))} :
       \E s2 \in {IF res.count > 0 THEN stopScheduledFetching(res.s) ELSE res.s} :
         Commit(s2, cur)
  /\ pc' = [pc EXCEPT ![0] = "idle"]
  /\ UNCHANGED <<closePc, envVars, browserVars, uploadVars>>
  /\ UNCHANGED <<startError, poolVars, tosVars, fileVars, cancelVars>>

\* onTaskComplete after its fetch: nothing new arms the timer; then the 2 s
\* delay between tasks
CompleteFetched(i) ==
  /\ pc[i] \in {"complete_fetch", "complete_fetch_err"}
  /\ \E res \in {fetchEnd(S, queryResult(i))} :
       \E s2 \in {IF res.count = 0 THEN startScheduledFetching(res.s) ELSE res.s} :
         Commit(s2, [cur EXCEPT ![i] = NoTask])
  /\ pc' = [pc EXCEPT ![i] = "delay"]
  /\ UNCHANGED <<closePc, envVars, browserVars, uploadVars>>
  /\ UNCHANGED <<startError, poolVars, tosVars, fileVars, cancelVars>>

(***************************************************************************)
(* processQueue and processTask                                            *)
(***************************************************************************)
\* the 5 s sleep or the 2 s delay is over: the next pass of the loop
LoopWake(i) ==
  /\ pc[i] \in {"sleep", "delay"}
  /\ LET top == loopTop(S)
     IN /\ Commit(top.s, [cur EXCEPT ![i] = top.cur])
        /\ pc' = [pc EXCEPT ![i] = top.pc]
  /\ UNCHANGED <<closePc, envVars, browserVars, uploadVars>>
  /\ UNCHANGED <<startError, poolVars, tosVars, fileVars, cancelVars>>

\* scanVideos returned no file of the drama: skipped, then the table update
ProcScannedEmpty(i) ==
  /\ pc[i] = "scan"
  /\ ~localFiles[tasks[cur[i]].recordId]
  /\ Commit(markNoFiles(S, cur[i]), cur)
  /\ pc' = [pc EXCEPT ![i] = "skip_update"]
  /\ UNCHANGED <<closePc, envVars, browserVars, uploadVars>>
  /\ UNCHANGED <<startError, poolVars, tosVars, fileVars, cancelVars>>

\* scanVideos found files: the table is set to "uploading" (best effort)
ProcScannedFiles(i) ==
  /\ pc[i] = "scan"
  /\ localFiles[tasks[cur[i]].recordId]
  /\ pc' = [pc EXCEPT ![i] = "mark_uploading"]
  /\ UNCHANGED <<status, queue, tasks, taskMap, fetchTimer, isTaskProcessing,
                 fetchCount, cur, closePc, envVars, browserVars, uploadVars>>
  /\ UNCHANGED <<startError, poolVars, tosVars, fileVars, cancelVars>>

\* the end of processTask and the finally block of processQueue: the task's
\* final status st, then onTaskComplete up to its first await
finishTask(i, st, taskSkipped) ==
  LET done == onTaskComplete(setStatus(S, cur[i], st), taskSkipped) IN
  /\ done.pc = "delay" \/ fetchCount < MaxFetches
  /\ Commit(done.s, [cur EXCEPT ![i] = NoTask])
  /\ \E fails \in BOOLEAN :
       pc' = [pc EXCEPT ![i] = IF done.pc = "delay" THEN "delay"
                                ELSE awaitQuery(done.pc, fails)]

ProcSkipUpdatedWith_NoUpdate(i, ok) ==
  /\ pc[i] = "skip_update"
  /\ finishTask(i, tasks[cur[i]].status, TRUE)
  /\ UNCHANGED <<closePc, remote, localFiles, browserVars, uploadVars>>
  /\ UNCHANGED <<startError, poolVars, tosVars, fileVars, cancelVars>>

\* the skipped update returned: processTask returns true, onTaskComplete(true)
ProcSkipUpdatedWith(i, ok) ==
  /\ pc[i] = "skip_update"
  /\ remote' = updateFeishuRecordStatus(remote, tasks[cur[i]].recordId, StSkipped, ok)
  /\ finishTask(i, tasks[cur[i]].status, TRUE)
  /\ UNCHANGED <<closePc, localFiles, browserVars, uploadVars>>
  /\ UNCHANGED <<startError, poolVars, tosVars, fileVars, cancelVars>>

ProcSkipUpdated(i) == \E ok \in BOOLEAN : ProcSkipUpdatedWith(i, ok)

\* the "uploading" update returned, whether it succeeded or not
ProcMarkedUploadingWith(i, ok) ==
  /\ pc[i] = "mark_uploading"
  /\ remote' = updateFeishuRecordStatus(remote, tasks[cur[i]].recordId, StUploading, ok)
  /\ pc' = [pc EXCEPT ![i] = "upload"]
  /\ UNCHANGED <<status, queue, tasks, taskMap, fetchTimer, isTaskProcessing,
                 fetchCount, cur, closePc, localFiles, browserVars, uploadVars>>
  /\ UNCHANGED <<startError, poolVars, tosVars, fileVars, cancelVars>>

ProcMarkedUploading(i) == \E ok \in BOOLEAN : ProcMarkedUploadingWith(i, ok)

\* uploadTask reported failure (always so without a page): failed, then the
\* table is reverted
ProcUploadFailed(i) ==
  /\ pc[i] = "upload"
  /\ Commit(setStatus(S, cur[i], "failed"), cur)
  /\ pc' = [pc EXCEPT ![i] = "revert"]
  /\ UNCHANGED <<closePc, envVars, browserVars, uploadVars>>
  /\ UNCHANGED <<startError, poolVars, tosVars, fileVars, cancelVars>>

\* uploadTask reported success: the table is set to "ready for build"
ProcUploadOk(i) ==
  /\ pc[i] = "upload"
  /\ page
  /\ pc' = [pc EXCEPT ![i] = "mark_ready"]
  /\ UNCHANGED <<status, queue, tasks, taskMap, fetchTimer, isTaskProcessing,
                 fetchCount, cur, closePc, envVars, browserVars, uploadVars>>
  /\ UNCHANGED <<startError, poolVars, tosVars, fileVars, cancelVars>>

\* the revert returned: processTask returns false, onTaskComplete(false)
ProcRevertedWith(i, ok) ==
  /\ pc[i] = "revert"
  /\ remote' = updateFeishuRecordStatus(remote, tasks[cur[i]].recordId, StPending, ok)
  /\ finishTask(i, tasks[cur[i]].status, FALSE)
  /\ UNCHANGED <<closePc, localFiles, browserVars, uploadVars>>
  /\ UNCHANGED <<startError, poolVars, tosVars, fileVars, cancelVars>>

ProcReverted(i) == \E ok \in BOOLEAN : ProcRevertedWith(i, ok)

\* the "ready" update returned: the local directory is deleted next
ProcMarkedReadyWith(i, ok) ==
  /\ pc[i] = "mark_ready"
  /\ remote' = updateFeishuRecordStatus(remote, tasks[cur[i]].recordId, StReady, ok)
  /\ pc' = [pc EXCEPT ![i] = "delete"]
  /\ UNCHANGED <<status, queue, tasks, taskMap, fetchTimer, isTaskProcessing,
                 fetchCount, cur, closePc, localFiles, browserVars, uploadVars>>
  /\ UNCHANGED <<startError, poolVars, tosVars, fileVars, cancelVars>>

ProcMarkedReady(i) == \E ok \in BOOLEAN : ProcMarkedReadyWith(i, ok)

\* deleteFolder returned, a failed deletion failing the task
ProcDeletedWith_FailsOnError(i, ok) ==
  /\ pc[i] = "delete"
  /\ localFiles' = IF ok THEN [localFiles EXCEPT ![tasks[cur[i]].recordId] = FALSE]
                     ELSE localFiles
  /\ finishTask(i, IF ok THEN "completed" ELSE "failed", FALSE)
  /\ UNCHANGED <<closePc, remote, browserVars, uploadVars>>
  /\ UNCHANGED <<startError, poolVars, tosVars, fileVars, cancelVars>>

\* deleteFolder returned: completed, processTask returns false,
\* onTaskComplete(false)
ProcDeletedWith(i, ok) ==
  /\ pc[i] = "delete"
  /\ localFiles' = IF ok THEN [localFiles EXCEPT ![tasks[cur[i]].recordId] = FALSE]
                     ELSE localFiles
  /\ finishTask(i, "completed", FALSE)
  /\ UNCHANGED <<closePc, remote, browserVars, uploadVars>>
  /\ UNCHANGED <<startError, poolVars, tosVars, fileVars, cancelVars>>

ProcDeleted(i) == \E ok \in BOOLEAN : ProcDeletedWith(i, ok)

(***************************************************************************)
(* the environment: the operators of the tracking table                    *)
(***************************************************************************)
\* a record is (re)marked as awaiting upload in the table
EnvSetPending(r) ==
  /\ remote[r] \in {StReady, StSkipped}
  /\ remote' = [remote EXCEPT ![r] = StPending]
  /\ UNCHANGED <<schedVars, localFiles, browserVars, uploadVars>>
  /\ UNCHANGED <<poolVars, tosVars, fileVars, cancelVars>>

Next ==
  \/ \E i \in Slots : StartNoRootDir(i)
  \/ \E i \in Slots : StartCall(i)
  \/ \E i \in Slots : StartInitFailed(i)
  \/ \E i \in Slots : StartNeedLogin(i)
  \/ \E i \in Slots : StartRunning(i)
  \/ \E i \in Slots : StartFetched(i)
  \/ StopCall
  \/ StopClosed
  \/ TimerFire
  \/ TimerFetched
  \/ \E i \in Slots : CompleteFetched(i)
  \/ \E i \in Slots : LoopWake(i)
  \/ \E i \in Slots : ProcScannedEmpty(i)
  \/ \E i \in Slots : ProcScannedFiles(i)
  \/ \E i \in Slots : ProcSkipUpdated(i)
  \/ \E i \in Slots : ProcMarkedUploading(i)
  \/ \E i \in Slots : ProcUploadFailed(i)
  \/ \E i \in Slots : ProcUploadOk(i)
  \/ \E i \in Slots : ProcReverted(i)
  \/ \E i \in Slots : ProcMarkedReady(i)
  \/ \E i \in Slots : ProcDeleted(i)
  \/ \E r \in Records : EnvSetPending(r)

Spec == Init /\ [][Next]_vars

(***************************************************************************)
(* The scheduler while it stays running: no stop().  Every await of a      *)
(* context resolves (a timeout fires, a promise settles), so the step      *)
(* that resumes a suspended context is taken if it stays enabled.          *)
(***************************************************************************)
\* the continuation of context i after the await it is suspended at; the
\* continuations of one await are enabled together and each ends the await
Resume(i) ==
  \/ StartInitFailed(i)
  \/ StartNeedLogin(i)
  \/ StartRunning(i)
  \/ StartFetched(i)
  \/ CompleteFetched(i)
  \/ LoopWake(i)
  \/ ProcScannedEmpty(i)
  \/ ProcScannedFiles(i)
  \/ ProcSkipUpdated(i)
  \/ ProcMarkedUploading(i)
  \/ ProcUploadFailed(i)
  \/ ProcUploadOk(i)
  \/ ProcReverted(i)
  \/ ProcMarkedReady(i)
  \/ ProcDeleted(i)

\* every await of context i resolves
Resumes(i) ==
  /\ WF_vars(StartInitFailed(i))
  /\ WF_vars(StartNeedLogin(i))
  /\ WF_vars(StartRunning(i))
  /\ WF_vars(StartFetched(i))
  /\ WF_vars(CompleteFetched(i))
  /\ WF_vars(LoopWake(i))
  /\ WF_vars(ProcScannedEmpty(i))
  /\ WF_vars(ProcScannedFiles(i))
  /\ WF_vars(ProcSkipUpdated(i))
  /\ WF_vars(ProcMarkedUploading(i))
  /\ WF_vars(ProcUploadFailed(i))
  /\ WF_vars(ProcUploadOk(i))
  /\ WF_vars(ProcReverted(i))
  /\ WF_vars(ProcMarkedReady(i))
  /\ WF_vars(ProcDeleted(i))

RunningNext ==
  \/ \E i \in Slots : StartNoRootDir(i)
  \/ \E i \in Slots : StartCall(i)
  \/ \E i \in Slots : Resume(i)
  \/ TimerFire
  \/ TimerFetched
  \/ \E r \in Records : EnvSetPending(r)

RunningSpec ==
  /\ Init
  /\ [][RunningNext]_vars
  /\ \A i \in Slots : Resumes(i)
  /\ WF_vars(TimerFetched)

(***************************************************************************)
(* The batch uploader: initialize(), close(), uploadTask().                *)
(***************************************************************************)
queueVars == <<status, queue, tasks, taskMap, fetchTimer, isTaskProcessing,
               fetchCount, pc, cur, startError>>

UploadInit ==
  /\ SchedInit
  /\ PoolIdle
  /\ TosIdle
  /\ FileIdle
  /\ CancelIdle
  /\ remote = [r \in Records |-> StPending]
  /\ localFiles = [r \in Records |-> TRUE]
  /\ initPc = "idle"
  /\ upl = UploadIdle
  /\ progress = [r \in Records |-> NoCkpt]
  /\ covered = [r \in Records |-> {}]

CommitW(w) == upl' = w.u /\ progress' = w.progress /\ covered' = w.covered

\* initialize() and close() are entered from the event loop: never between
\* the return of uploadBatchInternal and the resumption of uploadBatch

\* initialize(): the cancellation flag is reset; an initialised browser is
\* kept, otherwise one is launched
InitCall ==
  /\ upl.pc # "returned"
  /\ initPc = "idle"
  /\ isCancelled' = FALSE
  /\ initPc' = IF page THEN "idle" ELSE "launching"
  /\ UNCHANGED <<queueVars, envVars, closePc, page, upl, progress, covered>>
  /\ UNCHANGED <<poolVars, tosVars, fileVars, cancelVars>>

InitDone(ok) ==
  /\ upl.pc # "returned"
  /\ initPc = "launching"
  /\ initPc' = "idle"
  /\ page' = (ok \/ page)
  /\ UNCHANGED <<queueVars, envVars, closePc, isCancelled, upl, progress, covered>>
  /\ UNCHANGED <<poolVars, tosVars, fileVars, cancelVars>>

\* close(): the flag first, then the page is closed
CloseCall ==
  /\ upl.pc # "returned"
  /\ closePc = "idle"
  /\ isCancelled' = TRUE
  /\ closePc' = "closing"
  /\ UNCHANGED <<queueVars, envVars, page, initPc, upl, progress, covered>>
  /\ UNCHANGED <<poolVars, tosVars, fileVars, cancelVars>>

CloseDone ==
  /\ upl.pc # "returned"
  /\ closePc = "closing"
  /\ page' = FALSE
  /\ closePc' = "idle"
  /\ UNCHANGED <<queueVars, envVars, isCancelled, initPc, upl, progress, covered>>
  /\ UNCHANGED <<poolVars, tosVars, fileVars, cancelVars>>

\* uploadTask(task) with task.files.length = n under config.batchSize = b
uploadTaskEntry(pg, r, n, b) ==
  IF pg
  THEN [UploadIdle EXCEPT !.pc = "navigate", !.recordId = r,
                          !.files = n, !.batchSize = b]
  ELSE [UploadIdle EXCEPT !.recordId = r, !.files = n, !.batchSize = b,
                          !.result = Result(FALSE, 0)]

UploadTaskCall(r, n, b) ==
  /\ upl.pc = "idle"
  /\ upl' = uploadTaskEntry(page, r, n, b)
  /\ UNCHANGED <<queueVars, envVars, browserVars, closePc, initPc, progress, covered>>
  /\ UNCHANGED <<poolVars, tosVars, fileVars, cancelVars>>

NavigateOk ==
  /\ upl.pc = "navigate"
  /\ page
  /\ CommitW(planAndStart(W, page))
  /\ UNCHANGED <<queueVars, envVars, browserVars, closePc, initPc>>
  /\ UNCHANGED <<poolVars, tosVars, fileVars, cancelVars>>

NavigateFailed ==
  /\ upl.pc = "navigate"
  /\ CommitW(taskReturn(W, Result(FALSE, 0)))
  /\ UNCHANGED <<queueVars, envVars, browserVars, closePc, initPc>>
  /\ UNCHANGED <<poolVars, tosVars, fileVars, cancelVars>>

\* uploadBatch, retry > 0: the reload and the cool-down are over
ReloadOk ==
  /\ upl.pc = "reload"
  /\ CommitW(beginAttempt(W, page))
  /\ UNCHANGED <<queueVars, envVars, browserVars, closePc, initPc>>
  /\ UNCHANGED <<poolVars, tosVars, fileVars, cancelVars>>

ReloadFailed ==
  /\ upl.pc = "reload"
  /\ CommitW(afterThrow(W, page))
  /\ UNCHANGED <<queueVars, envVars, browserVars, closePc, initPc>>
  /\ UNCHANGED <<poolVars, tosVars, fileVars, cancelVars>>

\* uploadBatchInternal: the files are handed to the file chooser
TriggerOk ==
  /\ upl.pc = "trigger"
  /\ CommitW([W EXCEPT !.u.pc = "poll"])
  /\ UNCHANGED <<queueVars, envVars, browserVars, closePc, initPc>>
  /\ UNCHANGED <<poolVars, tosVars, fileVars, cancelVars>>

TriggerFailed ==
  /\ upl.pc = "trigger"
  /\ CommitW(return(W, Result(FALSE, 0)))
  /\ UNCHANGED <<queueVars, envVars, browserVars, closePc, initPc>>
  /\ UNCHANGED <<poolVars, tosVars, fileVars, cancelVars>>

\* the polling loop, one iteration: the ceiling, the cancellation flag, the
\* page, then the observation
PollTimeout(t) ==
  /\ upl.pc = "poll" /\ t >= upl.clock
  /\ ~(t < maxWaitTime)
  /\ CommitW(return([W EXCEPT !.u.timedOut = TRUE], Result(FALSE, 0)))
  /\ UNCHANGED <<queueVars, envVars, browserVars, closePc, initPc>>
  /\ UNCHANGED <<poolVars, tosVars, fileVars, cancelVars>>

PollCancelled(t) ==
  /\ upl.pc = "poll" /\ t >= upl.clock
  /\ t < maxWaitTime
  /\ isCancelled
  /\ CommitW(return([W EXCEPT !.u.aborted = TRUE], Result(FALSE, 0)))
  /\ UNCHANGED <<queueVars, envVars, browserVars, closePc, initPc>>
  /\ UNCHANGED <<poolVars, tosVars, fileVars, cancelVars>>

PollPageGone(t) ==
  /\ upl.pc = "poll" /\ t >= upl.clock
  /\ t < maxWaitTime
  /\ ~isCancelled
  /\ ~page
  /\ CommitW(return(W, Result(FALSE, 0)))
  /\ UNCHANGED <<queueVars, envVars, browserVars, closePc, initPc>>
  /\ UNCHANGED <<poolVars, tosVars, fileVars, cancelVars>>

PollError(t) ==
  /\ upl.pc = "poll" /\ t >= upl.clock
  /\ t < maxWaitTime
  /\ ~isCancelled
  /\ page
  /\ CommitW([W EXCEPT !.u.clock = t])
  /\ UNCHANGED <<queueVars, envVars, browserVars, closePc, initPc>>
  /\ UNCHANGED <<poolVars, tosVars, fileVars, cancelVars>>

PollObserve(t, progressCount, successCount) ==
  /\ upl.pc = "poll" /\ t >= upl.clock
  /\ t < maxWaitTime
  /\ ~isCancelled
  /\ page
  /\ successCount <= progressCount
  /\ LET d == decide(batchLen(upl), progressCount, successCount, t)
     IN CommitW([W EXCEPT
          !.u.clock = t, !.u.pc = d.pc, !.u.pending = d.pending,
          !.u.sawAll = @ \/ (progressCount = batchLen(upl) /\ successCount = progressCount),
          !.u.lateShort = IF progressCount < batchLen(upl) /\ t > earlyExitTime
                          THEN progressCount ELSE @])
  /\ UNCHANGED <<queueVars, envVars, browserVars, closePc, initPc>>
  /\ UNCHANGED <<poolVars, tosVars, fileVars, cancelVars>>

\* clickCancelButton returned (its errors are swallowed)
CancelDone ==
  /\ upl.pc = "cancel"
  /\ CommitW(return([W EXCEPT !.u.cancels = @ + 1], upl.pending))
  /\ UNCHANGED <<queueVars, envVars, browserVars, closePc, initPc>>
  /\ UNCHANGED <<poolVars, tosVars, fileVars, cancelVars>>

\* the confirm button was visible and is clicked
ConfirmOk ==
  /\ upl.pc = "confirm"
  /\ CommitW(return([W EXCEPT !.u.confirms = @ + 1], upl.pending))
  /\ UNCHANGED <<queueVars, envVars, browserVars, closePc, initPc>>
  /\ UNCHANGED <<poolVars, tosVars, fileVars, cancelVars>>

\* the wait for the confirm button, or its click, threw: the loop's catch
ConfirmFailed ==
  /\ upl.pc = "confirm"
  /\ CommitW([W EXCEPT !.u.confirmFailed = TRUE, !.u.pc = "poll",
                       !.u.pending = NoResult])
  /\ UNCHANGED <<queueVars, envVars, browserVars, closePc, initPc>>
  /\ UNCHANGED <<poolVars, tosVars, fileVars, cancelVars>>

\* uploadBatch resumes: success ends the batch, failure goes to the next
\* retry or, after the last, fails the batch
AttemptReturned ==
  /\ upl.pc = "returned"
  /\ CommitW(attemptEnd(W, page))
  /\ UNCHANGED <<queueVars, envVars, browserVars, closePc, initPc>>
  /\ UNCHANGED <<poolVars, tosVars, fileVars, cancelVars>>

UploadNext ==
  \/ InitCall
  \/ \E ok \in BOOLEAN : InitDone(ok)
  \/ CloseCall
  \/ CloseDone
  \/ \E r \in UploadRecords, n \in 1..MaxFiles, b \in BatchSizes :
       UploadTaskCall(r, n, b)
  \/ NavigateOk
  \/ NavigateFailed
  \/ ReloadOk
  \/ ReloadFailed
  \/ TriggerOk
  \/ TriggerFailed
  \/ \E t \in Readings : PollTimeout(t)
  \/ \E t \in Readings : PollCancelled(t)
  \/ \E t \in Readings : PollPageGone(t)
  \/ \E t \in Readings : PollError(t)
  \/ \E t \in Readings, p \in 0..(batchLen(upl) + MaxExtra),
          s \in 0..(batchLen(upl) + MaxExtra) : PollObserve(t, p, s)
  \/ CancelDone
  \/ ConfirmOk
  \/ ConfirmFailed
  \/ AttemptReturned

UploadSpec == UploadInit /\ [][UploadNext]_vars

(***************************************************************************)
(* The batch uploader without close() from outside.  The awaits of an      *)
(* attempt resolve, and the clock of the polling loop passes the ceiling:  *)
(* every pass of the loop waits at least 5 s, so a loop that does not      *)
(* return reads an elapsed time of maxWaitTime or more after at most 120   *)
(* passes.                                                                 *)
(***************************************************************************)
UploadRunNext ==
  \/ InitCall
  \/ \E ok \in BOOLEAN : InitDone(ok)
  \/ \E r \in UploadRecords, n \in 1..MaxFiles, b \in BatchSizes :
       UploadTaskCall(r, n, b)
  \/ NavigateOk
  \/ NavigateFailed
  \/ ReloadOk
  \/ ReloadFailed
  \/ TriggerOk
  \/ TriggerFailed
  \/ \E t \in Readings : PollTimeout(t)
  \/ \E t \in Readings : PollError(t)
  \/ \E t \in Readings, p \in 0..(batchLen(upl) + MaxExtra),
          s \in 0..(batchLen(upl) + MaxExtra) : PollObserve(t, p, s)
  \/ CancelDone
  \/ ConfirmOk
  \/ ConfirmFailed
  \/ AttemptReturned

UploadRunSpec ==
  /\ UploadInit
  /\ [][UploadRunNext]_vars
  /\ WF_vars(TriggerOk)
  /\ WF_vars(CancelDone)
  /\ WF_vars(ConfirmOk)
  /\ SF_vars(PollTimeout(maxWaitTime))

(***************************************************************************)
(* End to end: the scheduler started once on a table with one record       *)
(* awaiting upload, processTask handing the drama's files to uploadTask.   *)
(* The table and the disk answer every call; the uploader's page behaves   *)
(* as in UploadSpec, without initialize() or close() from outside.         *)
(***************************************************************************)
\* DEFAULT_CONFIG.batchSize
defaultBatchSize == 10

\* the number of video files scanVideos finds for a drama that has any
ScenarioFiles == {25}

\* start() is called once
ScenarioSlots == {1}

\* what the page can show for a batch: nothing, one file, the whole batch
ScenarioCounts(u) == {0, 1, batchLen(u)}

E2EInit ==
  /\ SchedInit
  /\ PoolIdle
  /\ TosIdle
  /\ FileIdle
  /\ CancelIdle
  /\ remote = [r \in Records |-> IF r = "r1" THEN StPending ELSE StReady]
  /\ localFiles \in [Records -> BOOLEAN]
  /\ initPc = "idle"
  /\ upl = UploadIdle
  /\ progress = [r \in Records |-> NoCkpt]
  /\ covered = [r \in Records |-> {}]

\* processTask calls juliangService.uploadTask with the files found
ProcUploadCall(i) ==
  /\ pc[i] = "upload"
  /\ upl.pc = "idle"
  /\ \E n \in ScenarioFiles :
       upl' = uploadTaskEntry(page, tasks[cur[i]].recordId, n, defaultBatchSize)
  /\ pc' = [pc EXCEPT ![i] = "uploading"]
  /\ UNCHANGED <<status, queue, tasks, taskMap, fetchTimer, isTaskProcessing,
                 fetchCount, cur, closePc, envVars, browserVars, initPc, progress, covered>>
  /\ UNCHANGED <<startError, poolVars, tosVars, fileVars, cancelVars>>

\* uploadTask returned: on failure the task is failed and the table is
\* reverted next, on success the table is set to "ready for build" next
ProcUploadReturned(i) ==
  /\ pc[i] = "uploading"
  /\ upl.pc = "idle"
  /\ IF upl.result.success
     THEN /\ pc' = [pc EXCEPT ![i] = "mark_ready"]
          /\ UNCHANGED <<status, queue, tasks, taskMap, fetchTimer,
                         isTaskProcessing, fetchCount, cur>>
     ELSE /\ Commit(setStatus(S, cur[i], "failed"), cur)
          /\ pc' = [pc EXCEPT ![i] = "revert"]
  /\ UNCHANGED <<closePc, envVars, browserVars, uploadVars>>
  /\ UNCHANGED <<startError, poolVars, tosVars, fileVars, cancelVars>>

E2ENext ==
  \/ \E i \in ScenarioSlots : StartCall(i)
  \/ \E i \in ScenarioSlots : StartRunning(i)
  \/ \E i \in ScenarioSlots : StartFetched(i)
  \/ TimerFire
  \/ TimerFetched
  \/ \E i \in ScenarioSlots : CompleteFetched(i)
  \/ \E i \in ScenarioSlots : LoopWake(i)
  \/ \E i \in ScenarioSlots : ProcScannedEmpty(i)
  \/ \E i \in ScenarioSlots : ProcScannedFiles(i)
  \/ \E i \in ScenarioSlots : ProcSkipUpdatedWith(i, TRUE)
  \/ \E i \in ScenarioSlots : ProcMarkedUploadingWith(i, TRUE)
  \/ \E i \in ScenarioSlots : ProcUploadCall(i)
  \/ NavigateOk
  \/ NavigateFailed
  \/ ReloadOk
  \/ ReloadFailed
  \/ TriggerOk
  \/ TriggerFailed
  \/ \E t \in Readings : PollTimeout(t)
  \/ \E t \in Readings : PollError(t)
  \/ \E t \in Readings, p \in ScenarioCounts(upl), s \in ScenarioCounts(upl) :
       PollObserve(t, p, s)
  \/ CancelDone
  \/ ConfirmOk
  \/ ConfirmFailed
  \/ AttemptReturned
  \/ \E i \in ScenarioSlots : ProcUploadReturned(i)
  \/ \E i \in ScenarioSlots : ProcRevertedWith(i, TRUE)
  \/ \E i \in ScenarioSlots : ProcMarkedReadyWith(i, TRUE)
  \/ \E i \in ScenarioSlots : ProcDeletedWith(i, TRUE)

E2ESpec == E2EInit /\ [][E2ENext]_vars

(***************************************************************************)
(* The download page: one run of startDownload and the user's operations   *)
(***************************************************************************)
PoolInit ==
  /\ SchedInit
  /\ TosIdle
  /\ FileIdle
  /\ CancelIdle
  /\ remote = [r \in Records |-> StPending]
  /\ localFiles = [r \in Records |-> TRUE]
  /\ initPc = "idle"
  /\ upl = UploadIdle
  /\ progress = [r \in Records |-> NoCkpt]
  /\ covered = [r \in Records |-> {}]
  /\ downloadTasks = [it \in Items |-> DownloadTask("pending", 0, 0)]
  /\ poolQueue = <<>>
  /\ concurrentDownloads \in Concurrencies
  /\ downloading = "ready"
  /\ worker = [w \in Workers |-> [pc |-> "idle", task |-> NoItem, isStalled |-> FALSE]]
  /\ userOp = [it \in Items |-> "idle"]
  /\ transfer = [it \in Items |-> [k \in Kinds |-> "none"]]
  /\ activeDownloads = [it \in Items |-> "none"]
  /\ ahead = [it \in Items |-> {}]
  /\ retried = {}
  /\ secondRun = NoSecondRun

\* startDownload: the queue of the pending tasks, then each worker runs to
\* its first await (getDownloadUrl of the task it shifted)
StartDownload ==
  /\ downloading = "ready"
  /\ ~hasDownloadingTasks
  /\ LET pendingTasks == SelectSeq(ItemOrder, LAMBDA it : downloadTasks[it].status = "pending")
         workerCount == Min(concurrentDownloads, Len(pendingTasks))
     IN /\ Len(pendingTasks) > 0
        /\ worker' = [w \in Workers |->
                        IF WorkerIndex(w) <= workerCount
                        THEN [pc |-> "url", task |-> pendingTasks[WorkerIndex(w)],
                              isStalled |-> FALSE]
                        ELSE worker[w]]
        /\ poolQueue' = SubSeq(pendingTasks, workerCount + 1, Len(pendingTasks))
  /\ downloading' = "running"
  /\ UNCHANGED <<downloadTasks, concurrentDownloads, userOp, transfer,
                 activeDownloads, ahead, retried, secondRun, otherVars>>

\* startDownload invoked while the workers of an earlier invocation are
\* still running: the button is disabled by hasDownloadingTasks only, so it
\* can be clicked whenever no item is in "downloading" state.  The new run
\* has its own queue and its own workers; the model has identities for them
\* when the earlier run left workers unused.
StartDownloadAgain ==
  /\ \E w \in Workers : worker[w].pc \notin {"idle", "done"}
  /\ secondRun = NoSecondRun
  /\ ~hasDownloadingTasks
  /\ LET pendingTasks == SelectSeq(ItemOrder, LAMBDA it : downloadTasks[it].status = "pending")
         workerCount == Min(concurrentDownloads, Len(pendingTasks))
         free == {w \in Workers : worker[w].pc = "idle"}
         rank(w) == Cardinality({v \in free : WorkerIndex(v) <= WorkerIndex(w)})
         made == {w \in free : rank(w) <= workerCount}
     IN /\ Len(pendingTasks) > 0
        /\ Cardinality(free) >= workerCount
        /\ worker' = [w \in Workers |->
                        IF w \in made
                        THEN [pc |-> "url", task |-> pendingTasks[rank(w)],
                              isStalled |-> FALSE]
                        ELSE worker[w]]
        /\ secondRun' = [workers |-> made,
                         queue |-> SubSeq(pendingTasks, workerCount + 1, Len(pendingTasks))]
  /\ downloading' = "running"
  /\ UNCHANGED <<downloadTasks, poolQueue, concurrentDownloads, userOp, transfer,
                 activeDownloads, ahead, retried, otherVars>>

\* worker: downloadSingleTask returned; while (queue.length > 0) shift the
\* next task, else the worker ends (the last one ends startDownload)
WorkerLoop(w) ==
  /\ worker[w].pc = "loop"
  /\ IF queueOf(w) = <<>>
     THEN /\ worker' = [worker EXCEPT ![w] = [pc |-> "done", task |-> NoItem,
                                             isStalled |-> FALSE]]
          /\ downloading' = IF \A v \in sameRun(w) \ {w} :
                                  worker[v].pc \in {"idle", "done"}
                            THEN "finished" ELSE downloading
          /\ UNCHANGED <<poolQueue, secondRun, ahead>>
     ELSE /\ worker' = [worker EXCEPT ![w] = [pc |-> "url", task |-> Head(queueOf(w)),
                                             isStalled |-> FALSE]]
          /\ CommitQueue(w, Tail(queueOf(w)))
          /\ ahead' = [it \in Items |-> ahead[it] \ {Head(queueOf(w))}]
          /\ UNCHANGED downloading
  /\ UNCHANGED <<downloadTasks, concurrentDownloads, userOp, transfer,
                 activeDownloads, retried, otherVars>>

\* downloadSingleTask: getDownloadUrl returned
UrlDone(w, ok) ==
  /\ worker[w].pc = "url"
  /\ LET it == worker[w].task IN
     IF ok
     THEN /\ downloadTasks' = [downloadTasks EXCEPT ![it].status = "downloading",
                                                    ![it].progress = 0]
          /\ worker' = [worker EXCEPT ![w].pc = "mark"]
     ELSE /\ downloadTasks' = [downloadTasks EXCEPT ![it].status = "error",
                                                    ![it].error = "url"]
          /\ worker' = [worker EXCEPT ![w].pc = "loop"]
  /\ UNCHANGED <<poolQueue, concurrentDownloads, downloading, userOp, transfer,
                 activeDownloads, ahead, retried, secondRun, otherVars>>

\* downloadSingleTask: the "downloading" table update returned; the stall
\* timers are armed and downloadVideo is invoked
MarkDone(w) ==
  /\ worker[w].pc = "mark"
  /\ transfer[worker[w].task]["pool"] = "none"
  /\ CommitMain(mainStart(Main, worker[w].task, "pool"))
  /\ worker' = [worker EXCEPT ![w].pc = "race", ![w].isStalled = FALSE]
  /\ UNCHANGED <<downloadTasks, poolQueue, concurrentDownloads, downloading, userOp,
                 ahead, retried, secondRun, otherVars>>

\* onDownloadProgress: a progress event of a running request
ProgressEvent(it, p) ==
  /\ \E k \in Kinds : transfer[it][k] = "active"
  /\ downloadTasks' = [downloadTasks EXCEPT ![it].progress = p]
  /\ UNCHANGED <<poolQueue, concurrentDownloads, downloading, worker, userOp,
                 transfer, activeDownloads, ahead, retried, secondRun, otherVars>>

\* stallCheckInterval fires and reads the age of the last progress update
StallCheck(w, age) ==
  /\ worker[w].pc = "race"
  /\ ~worker[w].isStalled
  /\ age > STALL_TIMEOUT
  /\ downloadTasks[worker[w].task].status = "downloading"
  /\ worker' = [worker EXCEPT ![w].isStalled = TRUE]
  /\ UNCHANGED <<downloadTasks, poolQueue, concurrentDownloads, downloading, userOp,
                 transfer, activeDownloads, ahead, retried, secondRun, otherVars>>

\* the main process drops the outcome of a request nobody waits for
mainForget(m, it, k) ==
  [m EXCEPT !.transfer[it][k] = IF @ = "destroyed" THEN "none" ELSE @]

\* checkStallInterval fires: cancelDownload is invoked in the main process
\* and the race is rejected, so the outcome of downloadVideo is not read; the
\* catch block of downloadSingleTask runs for the stall error
StallReject(w) ==
  /\ worker[w].pc = "race"
  /\ worker[w].isStalled
  /\ CommitMain(mainForget(mainCancel(Main, worker[w].task), worker[w].task, "pool"))
  /\ worker' = [worker EXCEPT ![w].pc = "loop", ![w].isStalled = FALSE]
  /\ LET it == worker[w].task
         t == downloadTasks[it]
     IN IF isUserAction(t)
        THEN UNCHANGED <<downloadTasks, poolQueue, secondRun, ahead>>
        ELSE IF canRetry(t)
        THEN /\ downloadTasks' = [downloadTasks EXCEPT ![it] = stallRetry(t)]
             /\ CommitQueue(w, requeue(queueOf(w), it))
             /\ ahead' = [ahead EXCEPT ![it] = Range(queueOf(w))]
        ELSE /\ downloadTasks' = [downloadTasks EXCEPT ![it].status = "error",
                                                       ![it].error = "stall"]
             /\ UNCHANGED <<poolQueue, secondRun, ahead>>
  /\ UNCHANGED <<concurrentDownloads, downloading, userOp, retried, otherVars>>

\* the request of (it, k) finished: downloadVideo / resumeDownload resolves
\* with success; the awaiting code sets progress 100 and awaits extractZip
TransferOk(it, k) ==
  /\ transfer[it][k] = "active"
  /\ CommitMain(mainEnd(Main, it, k))
  /\ IF k = "pool" /\ \E w \in Workers : worker[w].task = it /\ worker[w].pc = "race"
     THEN /\ worker' = [w \in Workers |->
                          IF worker[w].task = it /\ worker[w].pc = "race"
                          THEN [worker[w] EXCEPT !.pc = "extract", !.isStalled = FALSE]
                          ELSE worker[w]]
          /\ downloadTasks' = [downloadTasks EXCEPT ![it].progress = 100]
          /\ UNCHANGED userOp
     ELSE IF k = "user" /\ userOp[it] = "transfer"
     THEN /\ userOp' = [userOp EXCEPT ![it] = "extract"]
          /\ downloadTasks' = [downloadTasks EXCEPT ![it].progress = 100]
          /\ UNCHANGED worker
     ELSE UNCHANGED <<worker, userOp, downloadTasks>>
  /\ UNCHANGED <<poolQueue, concurrentDownloads, downloading, ahead, retried, secondRun, otherVars>>

\* the request of (it, k) ended without the file (network error, or it was
\* destroyed): the call resolves with success false.  downloadSingleTask
\* throws "下载失败" into its catch block; the then() of a user chain does
\* nothing
TransferFailed(it, k) ==
  /\ transfer[it][k] \in {"active", "destroyed"}
  /\ CommitMain(mainEnd(Main, it, k))
  /\ IF k = "pool" /\ \E w \in Workers : worker[w].task = it /\ worker[w].pc = "race"
     THEN /\ worker' = [w \in Workers |->
                          IF worker[w].task = it /\ worker[w].pc = "race"
                          THEN [worker[w] EXCEPT !.pc = "loop", !.isStalled = FALSE]
                          ELSE worker[w]]
          /\ downloadTasks' = [downloadTasks EXCEPT
                                 ![it] = IF isUserAction(@) THEN @
                                         ELSE [@ EXCEPT !.status = "error",
                                                        !.error = "failed"]]
          /\ UNCHANGED userOp
     ELSE IF k = "user" /\ userOp[it] = "transfer"
     THEN /\ userOp' = [userOp EXCEPT ![it] = "idle"]
          /\ UNCHANGED <<worker, downloadTasks>>
     ELSE UNCHANGED <<worker, userOp, downloadTasks>>
  /\ UNCHANGED <<poolQueue, concurrentDownloads, downloading, ahead, retried, secondRun, otherVars>>

\* downloadSingleTask: extractZip returned (either way the status becomes
\* success); the table update that follows changes nothing here
ExtractDone(w) ==
  /\ worker[w].pc = "extract"
  /\ downloadTasks' = [downloadTasks EXCEPT ![worker[w].task].status = "success"]
  /\ worker' = [worker EXCEPT ![w].pc = "loop"]
  /\ UNCHANGED <<poolQueue, concurrentDownloads, downloading, userOp, transfer,
                 activeDownloads, ahead, retried, secondRun, otherVars>>

\* pauseDownload (the button shows for downloading items) with
\* DownloadService.pauseDownload; the table update that follows changes
\* nothing here
PauseCall(it) ==
  /\ downloadTasks[it].status = "downloading"
  /\ downloadTasks' = [downloadTasks EXCEPT ![it].status = "paused"]
  /\ CommitMain(mainCancel(Main, it))
  /\ UNCHANGED <<poolQueue, concurrentDownloads, downloading, worker, userOp,
                 ahead, retried, secondRun, otherVars>>

\* cancelDownload (the button shows for downloading and paused items) with
\* DownloadService.cancelDownload; the table update that follows changes
\* nothing here
CancelCall(it) ==
  /\ downloadTasks[it].status \in {"downloading", "paused"}
  /\ downloadTasks' = [downloadTasks EXCEPT ![it].status = "cancelled", ![it].error = ""]
  /\ CommitMain(mainCancel(Main, it))
  /\ UNCHANGED <<poolQueue, concurrentDownloads, downloading, worker, userOp,
                 ahead, retried, secondRun, otherVars>>

\* resumeDownload (the button is disabled when downloadingCount >=
\* concurrentDownloads): the status, the table update, then
\* window.api.resumeDownload; without a saved download state the handler of
\* download:resume answers success false and the then() of the chain does
\* nothing
ResumeCall(it, found) ==
  /\ downloadTasks[it].status = "paused"
  /\ downloadingCount < concurrentDownloads
  /\ userOp[it] = "idle"
  /\ transfer[it]["user"] = "none"
  /\ downloadTasks' = [downloadTasks EXCEPT ![it].status = "downloading", ![it].error = ""]
  /\ IF found
     THEN /\ CommitMain(mainStart(Main, it, "user"))
          /\ userOp' = [userOp EXCEPT ![it] = "transfer"]
     ELSE UNCHANGED <<userOp, transfer, activeDownloads>>
  /\ UNCHANGED <<poolQueue, concurrentDownloads, downloading, worker, ahead,
                 retried, secondRun, otherVars>>

\* retryDownload up to its await (the button shows for error and cancelled
\* items)
RetryCall(it) ==
  /\ downloadTasks[it].status \in {"error", "cancelled"}
  /\ userOp[it] = "idle"
  /\ downloadTasks' = [downloadTasks EXCEPT ![it].status = "pending", ![it].progress = 0,
                                            ![it].error = ""]
  /\ userOp' = [userOp EXCEPT ![it] = "retry_url"]
  /\ retried' = retried \cup {it}
  /\ UNCHANGED <<poolQueue, concurrentDownloads, downloading, worker, transfer,
                 activeDownloads, ahead, secondRun, otherVars>>

\* retryDownload: getDownloadUrl returned; with a URL the status, the table
\* update, then downloadVideo
RetryUrlDone(it, ok) ==
  /\ userOp[it] = "retry_url"
  /\ IF ok
     THEN /\ transfer[it]["user"] = "none"
          /\ downloadTasks' = [downloadTasks EXCEPT ![it].status = "downloading"]
          /\ CommitMain(mainStart(Main, it, "user"))
          /\ userOp' = [userOp EXCEPT ![it] = "transfer"]
     ELSE /\ downloadTasks' = [downloadTasks EXCEPT ![it].status = "error",
                                                    ![it].error = "url"]
          /\ userOp' = [userOp EXCEPT ![it] = "idle"]
          /\ UNCHANGED <<transfer, activeDownloads>>
  /\ UNCHANGED <<poolQueue, concurrentDownloads, downloading, worker, ahead,
                 retried, secondRun, otherVars>>

\* the then() of a user chain: extractZip returned
UserExtractDone(it) ==
  /\ userOp[it] = "extract"
  /\ downloadTasks' = [downloadTasks EXCEPT ![it].status = "success"]
  /\ userOp' = [userOp EXCEPT ![it] = "idle"]
  /\ UNCHANGED <<poolQueue, concurrentDownloads, downloading, worker, transfer,
                 activeDownloads, ahead, retried, secondRun, otherVars>>


PoolNext ==
  \/ StartDownload
  \/ \E w \in Workers : WorkerLoop(w)
  \/ \E w \in Workers, ok \in BOOLEAN : UrlDone(w, ok)
  \/ \E w \in Workers : MarkDone(w)
  \/ \E it \in Items, p \in Percents : ProgressEvent(it, p)
  \/ \E w \in Workers, age \in Ages : StallCheck(w, age)
  \/ \E w \in Workers : StallReject(w)
  \/ \E it \in Items, k \in Kinds : TransferOk(it, k)
  \/ \E it \in Items, k \in Kinds : TransferFailed(it, k)
  \/ \E w \in Workers : ExtractDone(w)
  \/ \E it \in ClickedItems : PauseCall(it)
  \/ \E it \in ClickedItems : CancelCall(it)
  \/ \E it \in ClickedItems, found \in BOOLEAN : ResumeCall(it, found)
  \/ \E it \in ClickedItems : RetryCall(it)
  \/ \E it \in Items, ok \in BOOLEAN : RetryUrlDone(it, ok)
  \/ \E it \in Items : UserExtractDone(it)

PoolSpec == PoolInit /\ [][PoolNext]_vars

(***************************************************************************)
(* A startDownload run that no pause and no cancel interrupts.  Every      *)
(* await of a worker resolves, and every request of the main process ends: *)
(* with the file, without it, or destroyed by the cancel of a stall.       *)
(***************************************************************************)
PoolRunNext ==
  \/ StartDownload
  \/ \E w \in Workers : WorkerLoop(w)
  \/ \E w \in Workers, ok \in BOOLEAN : UrlDone(w, ok)
  \/ \E w \in Workers : MarkDone(w)
  \/ \E it \in Items, p \in Percents : ProgressEvent(it, p)
  \/ \E w \in Workers, age \in Ages : StallCheck(w, age)
  \/ \E w \in Workers : StallReject(w)
  \/ \E it \in Items, k \in Kinds : TransferOk(it, k)
  \/ \E it \in Items, k \in Kinds : TransferFailed(it, k)
  \/ \E w \in Workers : ExtractDone(w)
  \/ \E it \in ClickedItems : RetryCall(it)
  \/ \E it \in Items, ok \in BOOLEAN : RetryUrlDone(it, ok)
  \/ \E it \in Items : UserExtractDone(it)

\* the awaits of worker w resolve
WorkerResumes(w) ==
  /\ WF_vars(WorkerLoop(w))
  /\ WF_vars(UrlDone(w, TRUE))
  /\ WF_vars(MarkDone(w))
  /\ WF_vars(StallReject(w))
  /\ WF_vars(ExtractDone(w))

\* the request the pool started for an item does not stay open for ever
TransferEnds(it) ==
  /\ WF_vars(TransferOk(it, "pool"))
  /\ WF_vars(TransferFailed(it, "pool"))

\* the pool with a second startDownload, without the per-item buttons
OverlapNext ==
  \/ StartDownload
  \/ StartDownloadAgain
  \/ \E w \in Workers : WorkerLoop(w)
  \/ \E w \in Workers, ok \in BOOLEAN : UrlDone(w, ok)
  \/ \E w \in Workers : MarkDone(w)
  \/ \E it \in Items, p \in Percents : ProgressEvent(it, p)
  \/ \E w \in Workers, age \in Ages : StallCheck(w, age)
  \/ \E w \in Workers : StallReject(w)
  \/ \E it \in Items, k \in Kinds : TransferOk(it, k)
  \/ \E it \in Items, k \in Kinds : TransferFailed(it, k)
  \/ \E w \in Workers : ExtractDone(w)

OverlapSpec == PoolInit /\ [][OverlapNext]_vars

PoolRunSpec ==
  /\ PoolInit
  /\ [][PoolRunNext]_vars
  /\ \A w \in Workers : WorkerResumes(w)
  /\ \A it \in Items : TransferEnds(it)

(***************************************************************************)
(* One item of the pool from its first attempt to its last: the page's     *)
(* downloadSingleTask with its stall timers on one side, the handlers of   *)
(* download:video and download:cancel with DownloadService on the other,   *)
(* and the invoke messages between them, which the main process handles in *)
(* the order they were sent.  No pause is made here, so pausedDownloads    *)
(* stays empty.                                                            *)
(***************************************************************************)
CancelInit ==
  /\ SchedInit
  /\ PoolIdle
  /\ TosIdle
  /\ FileIdle
  /\ CancelIdle
  /\ remote = [r \in Records |-> StPending]
  /\ localFiles = [r \in Records |-> TRUE]
  /\ initPc = "idle"
  /\ upl = UploadIdle
  /\ progress = [r \in Records |-> NoCkpt]
  /\ covered = [r \in Records |-> {}]

MainResults == {"ok", "failed", "cancelled"}

\* the automatic retries made so far by the attempts 1..n
RECURSIVE autoRetries(_)
autoRetries(n) == IF n = 0 THEN 0 ELSE attempts[n].retryCount + autoRetries(n - 1)

\* a worker shifted the item (the first time, or after a requeue), got its
\* link and calls window.api.downloadVideo; the stall timers are armed
AttemptStart(n) ==
  /\ attempts[n].page = "none"
  /\ IF n = 1 THEN TRUE ELSE attempts[n - 1].page = "requeued"
  /\ attempts' = [attempts EXCEPT ![n].page = "race"]
  /\ ipcQueue' = Append(ipcQueue, [op |-> "video", att |-> n])
  /\ UNCHANGED <<cancelledDownloads, activeRequest, nonCancelVars>>

\* stallCheckInterval: no progress for more than STALL_TIMEOUT
AttemptStalls(n) ==
  /\ attempts[n].page = "race"
  /\ ~attempts[n].isStalled
  /\ attempts' = [attempts EXCEPT ![n].isStalled = TRUE]
  /\ UNCHANGED <<ipcQueue, cancelledDownloads, activeRequest, nonCancelVars>>

\* checkStallInterval while the race is open: window.api.cancelDownload is
\* invoked and the race rejected; the catch block requeues the item while
\* task.retryCount (n - 1 in attempt n) is below MAX_RETRIES
AttemptStallEnds(n) ==
  /\ attempts[n].page = "race"
  /\ attempts[n].isStalled
  /\ attempts' = [attempts EXCEPT ![n].cancelSent = TRUE,
                                  ![n].page = IF n - 1 < MAX_RETRIES THEN "requeued"
                                              ELSE "ended"]
  /\ ipcQueue' = Append(ipcQueue, [op |-> "cancel", att |-> n])
  /\ UNCHANGED <<cancelledDownloads, activeRequest, nonCancelVars>>

\* the answer of download:video reaches the page: the race is settled by
\* the result and the attempt ends as success or as error
ResultArrives(n) ==
  /\ attempts[n].page = "race"
  /\ attempts[n].main \in MainResults
  /\ attempts' = [attempts EXCEPT ![n].page = "ended"]
  /\ UNCHANGED <<ipcQueue, cancelledDownloads, activeRequest, nonCancelVars>>

\* checkStallInterval after the race was settled by the result: the flag
\* is set, so window.api.cancelDownload is invoked all the same
LateCancel(n) ==
  /\ attempts[n].page = "ended"
  /\ attempts[n].isStalled
  /\ ~attempts[n].cancelSent
  /\ attempts' = [attempts EXCEPT ![n].cancelSent = TRUE]
  /\ ipcQueue' = Append(ipcQueue, [op |-> "cancel", att |-> n])
  /\ UNCHANGED <<cancelledDownloads, activeRequest, nonCancelVars>>

\* the handler of download:cancel
HandleCancel ==
  /\ ipcQueue # <<>>
  /\ Head(ipcQueue).op = "cancel"
  /\ ipcQueue' = Tail(ipcQueue)
  /\ CommitD(serviceCancel(D))
  /\ UNCHANGED nonCancelVars

\* the handler of download:video, downloadFile up to its first await: the
\* mark is cleared; with a file on disk the size is asked for first
HandleVideo(onDisk) ==
  /\ ipcQueue # <<>>
  /\ Head(ipcQueue).op = "video"
  /\ ipcQueue' = Tail(ipcQueue)
  /\ LET n == Head(ipcQueue).att
     IN CommitD(IF onDisk THEN [clearMark(D) EXCEPT !.attempts[n].main = "head"]
                ELSE startRequest(clearMark(D), n))
  /\ UNCHANGED nonCancelVars

\* getFileSize answered (or failed): the file is complete, or the download
\* goes on
HeadDone(n, complete) ==
  /\ attempts[n].main = "head"
  /\ CommitD(IF complete THEN [D EXCEPT !.attempts[n].main = "ok"]
             ELSE startRequest(D, n))
  /\ UNCHANGED <<ipcQueue, nonCancelVars>>

\* response.on("data") with the mark set: request.destroy()
DataSeesMark(n) ==
  /\ attempts[n].main = "active"
  /\ cancelledDownloads
  /\ attempts' = [attempts EXCEPT ![n].main = "destroyed"]
  /\ UNCHANGED <<ipcQueue, cancelledDownloads, activeRequest, nonCancelVars>>

\* the file is written: the registration of the name is deleted
RequestFinished(n) ==
  /\ attempts[n].main = "active"
  /\ CommitD([D EXCEPT !.attempts[n].main = "ok", !.activeRequest = NoAttempt])
  /\ UNCHANGED <<ipcQueue, nonCancelVars>>

\* an error event of the request or of the response, of the network or of
\* a destroy: the registration of the name is deleted and the promise
\* rejected into the catch block of downloadWithRetry
RequestError(n, retryable) ==
  /\ attempts[n].main \in {"active", "destroyed"}
  /\ retryable => autoRetries(MAX_RETRIES + 1) < MaxAutoRetries
  /\ CommitD(retryCatch([D EXCEPT !.activeRequest = NoAttempt], n, retryable))
  /\ UNCHANGED <<ipcQueue, nonCancelVars>>

\* a response with another status than 200 or 206: rejected with the
\* registration left in place
StatusRejected(n) ==
  /\ attempts[n].main = "active"
  /\ CommitD(retryCatch(D, n, FALSE))
  /\ UNCHANGED <<ipcQueue, nonCancelVars>>

\* downloadWithRetry after AUTO_RETRY_DELAY: the mark is looked at again
WaitDone(n) ==
  /\ attempts[n].main = "wait"
  /\ CommitD(IF cancelledDownloads
             THEN [D EXCEPT !.cancelledDownloads = FALSE, !.attempts[n].main = "cancelled"]
             ELSE startRequest(D, n))
  /\ UNCHANGED <<ipcQueue, nonCancelVars>>

CancelNext ==
  \/ \E n \in AttemptIds : AttemptStart(n)
  \/ \E n \in AttemptIds : AttemptStalls(n)
  \/ \E n \in AttemptIds : AttemptStallEnds(n)
  \/ \E n \in AttemptIds : ResultArrives(n)
  \/ \E n \in AttemptIds : LateCancel(n)
  \/ HandleCancel
  \/ \E onDisk \in BOOLEAN : HandleVideo(onDisk)
  \/ \E n \in AttemptIds, complete \in BOOLEAN : HeadDone(n, complete)
  \/ \E n \in AttemptIds : DataSeesMark(n)
  \/ \E n \in AttemptIds : RequestFinished(n)
  \/ \E n \in AttemptIds, retryable \in BOOLEAN : RequestError(n, retryable)
  \/ \E n \in AttemptIds : StatusRejected(n)
  \/ \E n \in AttemptIds : WaitDone(n)

CancelSpec == CancelInit /\ [][CancelNext]_vars

(***************************************************************************)
(* The zip extraction queue of FileService: extractZip calls from the      *)
(* pages, the end of an extraction, and the setImmediate callbacks.        *)
(***************************************************************************)
FileInit ==
  /\ SchedInit
  /\ PoolIdle
  /\ TosIdle
  /\ FileIdle
  /\ CancelIdle
  /\ remote = [r \in Records |-> StPending]
  /\ localFiles = [r \in Records |-> TRUE]
  /\ initPc = "idle"
  /\ upl = UploadIdle
  /\ progress = [r \in Records |-> NoCkpt]
  /\ covered = [r \in Records |-> {}]

\* extractZip: the call is pushed and processExtractQueue is invoked; an
\* identity is free for a new call once the promise of its last call settled
ExtractZipCall(c) ==
  /\ extractCalls[c] \in {"none", "resolved", "rejected"}
  /\ CommitF(processExtractQueue(
       [F EXCEPT !.extractQueue = Append(@, c), !.extractCalls[c] = "queued"]))
  /\ UNCHANGED <<immediates, nonFileVars>>

\* extractZipInternal returned (ok) or threw: the promise of the call is
\* settled, then the finally block clears the flag and, with calls still
\* queued, schedules processExtractQueue with setImmediate
ExtractSettled(c, ok) ==
  /\ extractCalls[c] = "extracting"
  /\ extractQueue = <<>> \/ immediates < MaxImmediates
  /\ CommitF([F EXCEPT !.extractCalls[c] = IF ok THEN "resolved" ELSE "rejected",
                       !.isExtracting = FALSE])
  /\ immediates' = IF extractQueue # <<>> THEN immediates + 1 ELSE immediates
  /\ UNCHANGED nonFileVars

\* a setImmediate callback runs processExtractQueue
ImmediateFires ==
  /\ immediates > 0
  /\ immediates' = immediates - 1
  /\ CommitF(processExtractQueue(F))
  /\ UNCHANGED nonFileVars

FileNext ==
  \/ \E c \in ZipCalls : ExtractZipCall(c)
  \/ \E c \in ZipCalls, ok \in BOOLEAN : ExtractSettled(c, ok)
  \/ ImmediateFires

FileSpec == FileInit /\ [][FileNext]_vars

(***************************************************************************)
(* The object-storage uploader: the calls of the page and the completions  *)
(***************************************************************************)
TosInit ==
  /\ SchedInit
  /\ PoolIdle
  /\ TosIdle
  /\ FileIdle
  /\ CancelIdle
  /\ remote = [r \in Records |-> StPending]
  /\ localFiles = [r \in Records |-> TRUE]
  /\ initPc = "idle"
  /\ upl = UploadIdle
  /\ progress = [r \in Records |-> NoCkpt]
  /\ covered = [r \in Records |-> {}]

\* uploadBatch(filePaths, maxConcurrent) up to its await of initTosClient
UploadBatchCall(fs, m) ==
  /\ batchInits < MaxPendingBatches
  /\ CommitT([T EXCEPT !.maxConcurrentUploads = m,
                       !.uploadQueue = fs,
                       !.uploadingCount = 0])
  /\ batchInits' = batchInits + 1
  /\ UNCHANGED <<uploadResult, nonTosVars>>

\* initTosClient answered: the initial calls of processQueue, the first of
\* which takes all the counter allows
UploadBatchStart ==
  /\ batchInits > 0
  /\ taken(T) <= Cardinality(freeUploads(T))
  /\ CommitT(processQueue(T))
  /\ batchInits' = batchInits - 1
  /\ UNCHANGED <<uploadResult, nonTosVars>>

\* initTosClient threw: uploadBatch rejects with the queue as it is
UploadBatchInitFailed ==
  /\ batchInits > 0
  /\ batchInits' = batchInits - 1
  /\ UNCHANGED <<uploadQueue, uploadingCount, maxConcurrentUploads,
                 uploadCancelTokens, activeUploads, uploads, uploadResult>>
  /\ UNCHANGED nonTosVars

\* uploadFile: the client is there, the token is registered under the file
\* name and the request is sent
UploadFileReady(id) ==
  /\ uploads[id].phase = "init"
  /\ CommitT([T EXCEPT !.uploads[id].phase = "transfer",
                       !.uploadCancelTokens[uploads[id].file] = id,
                       !.activeUploads = @ \cup {uploads[id].file}])
  /\ UNCHANGED <<batchInits, uploadResult, nonTosVars>>

\* uploadFile: initTosClient threw, the catch block and the finally block
UploadFileInitFailed(id) ==
  /\ uploads[id].phase = "init"
  /\ CommitT(settle(T, id))
  /\ uploadResult' = [uploadResult EXCEPT ![uploads[id].file] = "error"]
  /\ UNCHANGED <<batchInits, nonTosVars>>

\* the request ended, with success or with an error
UploadFileSettled(id, ok) ==
  /\ uploads[id].phase = "transfer"
  /\ CommitT(settle(T, id))
  /\ uploadResult' = [uploadResult EXCEPT ![uploads[id].file] =
                                           IF ok THEN "success" ELSE "error"]
  /\ UNCHANGED <<batchInits, nonTosVars>>

\* the cancelled request rejects: the catch block and the finally block
UploadFileCancelled(id) ==
  /\ uploads[id].phase = "cancelled"
  /\ CommitT(settle(T, id))
  /\ uploadResult' = [uploadResult EXCEPT ![uploads[id].file] = "cancelled"]
  /\ UNCHANGED <<batchInits, nonTosVars>>

CancelUpload(f) ==
  /\ uploadCancelTokens[f] # NoUpload
  /\ CommitT(cancelUpload(T, f))
  /\ UNCHANGED <<batchInits, uploadResult, nonTosVars>>

CancelAllUploads ==
  /\ CommitT(cancelAllUploads(T))
  /\ UNCHANGED <<batchInits, uploadResult, nonTosVars>>

TosNext ==
  \/ \E fs \in FileLists, m \in TosConcurrencies : UploadBatchCall(fs, m)
  \/ UploadBatchStart
  \/ UploadBatchInitFailed
  \/ \E id \in UploadIds : UploadFileReady(id)
  \/ \E id \in UploadIds : UploadFileInitFailed(id)
  \/ \E id \in UploadIds, ok \in BOOLEAN : UploadFileSettled(id, ok)
  \/ \E id \in UploadIds : UploadFileCancelled(id)
  \/ \E f \in TosFiles : CancelUpload(f)
  \/ CancelAllUploads

TosSpec == TosInit /\ [][TosNext]_vars



(***************************************************************************)
(* Properties of the scheduler, checked under Spec.                        *)
(***************************************************************************)
\* a loop inside processTask
ProcPcs == {"scan", "skip_update", "mark_uploading", "upload", "revert",
            "mark_ready", "delete"}

RunningOf(r) == {id \in TaskIds : tasks[id].status = "running" /\ tasks[id].recordId = r}

\* C1: for every record id, at most one task object with that record id is
\* in `running` state, in every reachable state of the scheduler.
C1_OneRunningPerRecord == \A r \in Records : Cardinality(RunningOf(r)) <= 1

\* C1's case: a fetch cycle is about to deliver a record whose task is running
C1_Witness ==
  \E r \in Records, c \in Ctx :
    /\ RunningOf(r) # {}
    /\ remote[r] = StPending
    /\ pc[c] \in FetchPcs
    /\ \E i \in Slots : i # c /\ pc[i] \in ProcPcs

\* C2: at most one processTask invocation is in progress at any time.
C2_OneTaskAtATime == Cardinality({i \in Slots : pc[i] \in ProcPcs}) <= 1

\* C3: when a fetch cycle returns the record of a task that ended `failed`,
\* the record is a pending (or already running) task of the queue again.
C3_FailedRetried ==
  [][\A c \in Ctx, r \in Records :
       ( /\ pc[c] \in FetchPcs
         /\ pc'[c] # pc[c]
         /\ remote[r] = StPending
         /\ taskMap[r] # NoTask
         /\ tasks[taskMap[r]].status = "failed" )
       => \E k \in 1..Len(queue') :
            /\ tasks'[queue'[k]].recordId = r
            /\ tasks'[queue'[k]].status \in {"pending", "running"}]_vars

\* C4: the completion of a skipped task starts no fetch cycle: the count of
\* fetch cycles changes only in start(), in the timer callback and in the
\* completion of a task that was not skipped.
C4_SkipNoFetch ==
  [][ /\ \A i \in Slots :
           (pc[i] = "skip_update" /\ pc'[i] # "skip_update")
           => (fetchCount' = fetchCount /\ pc'[i] = "delay")
      /\ fetchCount' # fetchCount
           => \/ \E i \in Slots : pc[i] = "start_init" /\ pc'[i] # pc[i]
              \/ pc[0] = "idle" /\ pc'[0] # "idle"
              \/ \E i \in Slots : pc[i] \in {"revert", "delete"} /\ pc'[i] # pc[i]
    ]_vars

\* C4's case: two skipped completions in a row, and still one fetch cycle
C4_Witness ==
  /\ Cardinality({id \in TaskIds : tasks[id].status = "skipped"}) = 2
  /\ \A i \in Slots : pc[i] \notin ProcPcs
  /\ fetchCount = 1
  /\ fetchTimer

\* C5: a task whose scan returned no file becomes `skipped` and stays so
\* (until the object is dropped), whatever the table update returns.
C5_NoFilesSkipped ==
  [][ /\ \A i \in Slots :
           (pc[i] = "scan" /\ pc'[i] # "scan" /\ ~localFiles[tasks[cur[i]].recordId])
           => tasks'[cur[i]].status = "skipped"
      /\ \A id \in TaskIds :
           tasks[id].status = "skipped" => tasks'[id].status \in {"skipped", "free"}
    ]_vars

\* C5's case: a task ended skipped although the table update failed
C5_Witness ==
  \E id \in TaskIds :
    /\ tasks[id].status = "skipped"
    /\ remote[tasks[id].recordId] = StPending
    /\ ~localFiles[tasks[id].recordId]
    /\ \A i \in Slots : cur[i] # id

(***************************************************************************)
(* Properties of the batch uploader, checked under UploadSpec.             *)
(***************************************************************************)

\* uploadBatchInternal has just returned and uploadBatch has not resumed
Returned == upl.pc = "returned"

C7_ShortfallCancels ==
  (Returned /\ upl.lateShort >= 0)
    => /\ upl.attemptResult = Result(FALSE, upl.lateShort)
       /\ upl.cancels = 1
       /\ upl.confirms = 0

\* C7, amended: an attempt on a batch of N files that saw M indicators with
\* 0 < M < N once the early-exit window had elapsed returns {success: false,
\* successCount: M}, having invoked the cancel action exactly once and the
\* confirm button never.  (With no indicator at all the loop keeps waiting.)
C7_NonEmptyShortfallCancels ==
  (Returned /\ upl.lateShort > 0)
    => /\ upl.attemptResult = Result(FALSE, upl.lateShort)
       /\ upl.cancels = 1
       /\ upl.confirms = 0

C7_Witness ==
  /\ Returned /\ upl.lateShort = 1 /\ batchLen(upl) = 2
  /\ upl.attemptResult = Result(FALSE, 1)
  /\ upl.cancels = 1

\* uploadTask has returned because a batch used up all its retries without
\* a fully successful attempt
Exhausted ==
  /\ upl.pc = "idle" /\ upl.result # NoResult
  /\ upl.retry = maxRetries - 1
  /\ \/ upl.batchThrew
     \/ upl.batchResult # NoResult /\ ~upl.batchResult.success

\* C8 as stated: a batch that used up all its retries without a fully
\* successful attempt is returned to uploadTask as failed with the best
\* partial count of its attempts.
C8_ExhaustedBestPartial ==
  (Exhausted /\ ~upl.batchThrew) => upl.batchResult = Result(FALSE, upl.best)

\* C8, amended: a batch that used up all its retries without a fully
\* successful attempt fails the task; uploadBatch returns {success: false,
\* successCount: 0} whatever its attempts achieved, or rethrows the error of
\* its last iteration.
C8_ExhaustedZero ==
  Exhausted => /\ ~upl.result.success
               /\ upl.batchThrew \/ upl.batchResult = Result(FALSE, 0)

C8_Witness == Exhausted /\ ~upl.batchThrew /\ upl.best > 0

\* C9: when the polling loop has returned on the cancellation flag, the
\* result is {false, 0} and uploadBatch ends the batch there: the task
\* returns and no retry is consumed.
C9_CancelEndsBatch ==
  [][(Returned /\ upl.aborted)
       => /\ upl.attemptResult = Result(FALSE, 0)
          /\ upl'.pc = "idle"
          /\ upl'.retry = upl.retry]_vars

\* C10: when the checkpoint read for the task's record has a totalBatches
\* other than that of the current plan, the upload starts at the first
\* batch and every batch up to the current one has been handed to
\* uploadBatch.
C10_StaleCheckpointIgnored ==
  upl.stale => /\ upl.startBatchIndex = 0
               /\ upl.attempted = 0..upl.i

C10_Witness ==
  /\ upl.stale /\ upl.pc = "poll" /\ upl.i = 0
  /\ progress[upl.recordId].completedBatches > 0
  /\ progress[upl.recordId].totalBatches # upl.totalBatches

\* C11: when the checkpoint read for the task's record matches the plan and
\* records completedBatches = k, uploadTask starts at batch k+1 (index k),
\* the batches handed to uploadBatch are exactly those from index k up to
\* the current one, and none of the first k is among them.
C11_ResumeFromCheckpoint ==
  upl.matched >= 0 => /\ upl.startBatchIndex = upl.matched
                      /\ upl.attempted = upl.matched..upl.i
                      /\ upl.i < upl.totalBatches

C11_Witness ==
  /\ upl.matched >= 1
  /\ upl.pc = "idle" /\ upl.result.success
  /\ upl.attempted = upl.matched..(upl.totalBatches - 1)
  /\ upl.totalBatches >= upl.matched + 2

(***************************************************************************)
(* Properties of the end-to-end run (E2ESpec)                              *)
(***************************************************************************)
\* the task of record r has left processTask with status st
Finished(r, st) ==
  \E id \in TaskIds : /\ tasks[id].recordId = r
                       /\ tasks[id].status = st
                       /\ \A i \in Slots : cur[i] # id

StallHandled(w) == StallReject(w)

\* C15: a stall of a downloading item whose retry counter is below the
\* ceiling cancels its transfer and appends it to the end of the shared
\* queue as pending, with the counter incremented by exactly one.
C15_StallRequeues ==
  [][\A w \in Workers :
       LET it == worker[w].task IN
         /\ StallHandled(w)
         /\ downloadTasks[it].status = "downloading"
         /\ downloadTasks[it].retryCount < MAX_RETRIES
         => /\ poolQueue' = Append(poolQueue, it)
            /\ downloadTasks'[it].status = "pending"
            /\ downloadTasks'[it].retryCount = downloadTasks[it].retryCount + 1
            /\ transfer'[it]["pool"] = "none"
            /\ activeDownloads'[it] # "pool"]_vars

\* C16: a stall of an item whose retry counter is at the ceiling ends it as
\* error; an item at the ceiling is never put on the shared queue, and no
\* retry counter exceeds the ceiling.
C16_CeilingEndsError ==
  [][\A it \in Items :
       /\ downloadTasks'[it].retryCount <= MAX_RETRIES
       /\ (\E w \in Workers : /\ worker[w].task = it
                               /\ StallHandled(w)
                               /\ downloadTasks[it].status = "downloading"
                               /\ downloadTasks[it].retryCount = MAX_RETRIES)
            => downloadTasks'[it].status = "error"
       /\ (downloadTasks[it].retryCount = MAX_RETRIES /\ it \notin Range(poolQueue))
            => it \notin Range(poolQueue')]_vars

C16_Witness ==
  \E it \in Items :
    /\ downloadTasks[it].status = "error"
    /\ downloadTasks[it].error = "stall"
    /\ downloadTasks[it].retryCount = MAX_RETRIES
    /\ it \notin Range(poolQueue)

C18_BoundedTransfers == Cardinality(Outstanding) <= concurrentDownloads

\* C19: an item that the user cancelled stays cancelled until retryDownload
\* is invoked on it.
C19_CancelWins ==
  [][\A it \in Items :
       downloadTasks[it].status = "cancelled" /\ downloadTasks'[it].status # "cancelled"
       => userOp[it] = "idle" /\ userOp'[it] = "retry_url"]_vars

\* C20: cancelDownload of an item leaves the status, progress and retry
\* counter of every other item, the queue and the other items' requests as
\* they were.
C20_CancelLeavesSiblings ==
  [][\A it \in Items :
       downloadTasks[it].status # "cancelled" /\ downloadTasks'[it].status = "cancelled"
       => /\ poolQueue' = poolQueue
          /\ \A o \in Items \ {it} : /\ downloadTasks'[o] = downloadTasks[o]
                                      /\ transfer'[o] = transfer[o]
                                      /\ activeDownloads'[o] = activeDownloads[o]]_vars

C20_Witness ==
  \E it \in Items, o \in Items :
    /\ it # o
    /\ downloadTasks[it].status = "cancelled"
    /\ transfer[it]["pool"] = "destroyed"
    /\ downloadTasks[o].status = "downloading"
    /\ transfer[o]["pool"] = "active"

(***************************************************************************)
(* Further properties of the scheduler (Spec)                              *)
(***************************************************************************)
\* a start() invocation returns an error in this step
StartFails(i) == StartNoRootDir(i) \/ StartInitFailed(i) \/ StartNeedLogin(i)

\* C21: a start() that finds no root directory, cannot initialise the
\* session or finds it not logged in returns its error and leaves the
\* status, the fetch count, the timer, the queue and its loop as they were;
\* the status becomes running only in a start() that passed all three checks.
C21_StartFailsFast ==
  [][ /\ \A i \in Slots :
           StartFails(i) => /\ startError' \in {ErrNoRootDir, ErrInitFailed, ErrNeedLogin}
                            /\ status' = status
                            /\ fetchCount' = fetchCount
                            /\ fetchTimer' = fetchTimer
                            /\ queue' = queue
                            /\ pc'[i] = "idle"
      /\ (status # "running" /\ status' = "running")
           => \E i \in Slots : /\ pc[i] = "start_init"
                               /\ pc'[i] \in {"start_fetch", "start_fetch_err"}
                               /\ startError' = ""
    ]_vars

\* C21's case: a start() returned the login error on a scheduler that had
\* run before, and nothing was started
C21_Witness ==
  /\ startError = ErrNeedLogin
  /\ status = "stopped"
  /\ ~fetchTimer
  /\ \A i \in Slots : pc[i] = "idle"
  /\ fetchCount = 1

\* the queue holds a pending task
HasPending == \E k \in 1..Len(queue) : tasks[queue[k]].status = "pending"

\* a fetch cycle of start() or of onTaskComplete ends in this step
SlotFetchEnds(i) ==
  /\ pc[i] \in {"start_fetch", "start_fetch_err", "complete_fetch", "complete_fetch_err"}
  /\ pc'[i] # pc[i]

C23_FailureLeavesPending ==
  [][\A i \in Slots :
       (pc[i] = "revert" /\ pc'[i] # "revert")
       => /\ tasks[cur[i]].status = "failed"
          /\ remote'[tasks[cur[i]].recordId] = StPending
          /\ localFiles'[tasks[cur[i]].recordId]]_vars

\* the task a loop holds ends its processing in this step
ProcEnds(i) == pc[i] \in ProcPcs /\ pc'[i] \notin ProcPcs

\* uploadTask has reported success for the task the loop holds
UploadReportedOk(i) == pc[i] \in {"mark_ready", "delete"}

\* the step leaves the queue, the map and the task objects as processTask
\* ending with status st, followed by onTaskComplete(false), leaves them
EndsAs(i, st) ==
  LET done == onTaskComplete(setStatus(S, cur[i], st), FALSE) IN
  /\ queue' = done.s.queue
  /\ taskMap' = done.s.taskMap
  /\ tasks' = Collect(done.s.tasks, done.s.queue, cur')

\* C24: a task with files ends completed if and only if uploadTask reported
\* success, whether the table updates and the deletion that follow succeed
\* or fail. A completed task is swept out of the queue and the map by the
\* fetch that onTaskComplete starts in the same step; a failed one stays in
\* the queue as failed. After a reported success the task ends completed,
\* after a reported failure it ends failed, and no task with files leaves
\* the queue in any other way.
C24_CompletedIffUploadOk ==
  [][/\ \A i \in Slots :
          /\ (UploadReportedOk(i) /\ pc'[i] # pc[i])
             => \/ pc[i] = "mark_ready" /\ pc'[i] = "delete" /\ tasks' = tasks
                \/ /\ pc[i] = "delete" /\ ProcEnds(i)
                   /\ EndsAs(i, "completed")
                   /\ cur[i] \in Range(queue) /\ cur[i] \notin Range(queue')
                   /\ taskMap'[tasks[cur[i]].recordId] = NoTask
          /\ (pc[i] = "upload" /\ pc'[i] # "upload")
             => \/ pc'[i] = "mark_ready"
                \/ pc'[i] = "revert" /\ tasks'[cur[i]].status = "failed"
          /\ (pc[i] = "revert" /\ pc'[i] # "revert")
             => /\ ProcEnds(i)
                /\ EndsAs(i, "failed")
                /\ cur[i] \in Range(queue') /\ tasks'[cur[i]].status = "failed"
     /\ \A t \in Range(queue) :
          t \notin Range(queue')
          => \/ tasks[t].status = "skipped"
             \/ \E i \in Slots : cur[i] = t /\ pc[i] = "delete" /\ ProcEnds(i)]_vars

\* a task was completed and swept although the "uploading" update was the
\* last one the table accepted and the directory could not be deleted
C24_Witness ==
  \E r \in Records, i \in Slots :
    /\ pc[i] \in {"complete_fetch", "complete_fetch_err"}
    /\ taskMap[r] = NoTask
    /\ \A t \in Range(queue) : tasks[t].recordId # r
    /\ remote[r] = StUploading
    /\ localFiles[r]

\* the failed query of context c is answered in this step
FailedQueryReturns(c) == pc[c] \in FetchErrPcs /\ pc'[c] # pc[c]

\* C25: a failed backend query adds no task in its fetch cycle and goes no
\* further: the scheduler's status is as it was (running stays running), the
\* caller goes on (start() enters the processing loop, onTaskComplete
\* returns to the loop's delay, the timer's callback returns), and the timer
\* that starts the later fetch cycles is armed after it while running.
C25_QueryFailureContained ==
  [][\A c \in Ctx :
       FailedQueryReturns(c)
       => /\ queue' = queue
          /\ taskMap' = taskMap
          /\ status' = status
          /\ startError' = startError
          /\ pc[c] = "start_fetch_err"
             => pc'[c] = (IF status # "running" THEN "idle"
                          ELSE IF getNextTask(S) = NoTask THEN "sleep" ELSE "scan")
          /\ pc[c] = "complete_fetch_err" => pc'[c] = "delay"
          /\ pc[c] = "timer_fetch_err" => pc'[c] = "idle" /\ fetchTimer' = fetchTimer
          /\ (c \in Slots /\ status = "running") => fetchTimer']_vars

\* the processing loop is alive with the timer armed while no record
\* awaiting upload has been enqueued, and the timer's query is failing too
C25_Witness ==
  /\ status = "running"
  /\ pc[1] = "sleep"
  /\ pc[0] = "timer_fetch_err"
  /\ fetchTimer
  /\ queue = <<>>
  /\ \A r \in Records : remote[r] = StPending /\ taskMap[r] = NoTask

\* C26: the result uploadBatchInternal returns for a batch never counts more
\* confirmed files than the batch holds, and reports success only when it
\* counts exactly as many, whatever numbers of indicators and success
\* markers the page showed.
C26_CountWithinBatch ==
  upl.pc = "returned"
  => /\ upl.attemptResult.successCount <= batchLen(upl)
     /\ upl.attemptResult.success => upl.attemptResult.successCount = batchLen(upl)

\* uploadTask is inside its loop over the batches
InBatchLoop == upl.pc \notin {"idle", "navigate"}

\* a checkpoint of n completed batches fits the plan in force
FitsPlan(n) ==
  /\ upl.totalBatches = batchCount(upl.files, upl.batchSize)
  /\ 0 <= n /\ n <= upl.totalBatches

\* C27: every checkpoint uploadTask writes has a completed batch count
\* between 0 and the batch count of the plan in force: while a batch is
\* under way both counts the code can write for it (one more than its index
\* on success, the count saved on failure) fit the plan, and every
\* checkpoint that appears in the store carries the plan's batch count and a
\* completed count within it.
C27_CheckpointWithinPlan ==
  [][/\ InBatchLoop => FitsPlan(upl.i + 1) /\ FitsPlan(failedCheckpoint(upl))
     /\ \A r \in Records :
          (progress'[r] # progress[r] /\ progress'[r] # NoCkpt)
          => /\ r = upl'.recordId
             /\ progress'[r].totalBatches = batchCount(upl'.files, upl'.batchSize)
             /\ 0 <= progress'[r].completedBatches
             /\ progress'[r].completedBatches <= progress'[r].totalBatches]_vars

\* a run that resumed after one completed batch failed at the next one and
\* saved the same count again
C27_Witness ==
  /\ upl.pc = "idle"
  /\ upl.startBatchIndex = 1
  /\ ~upl.result.success
  /\ progress[upl.recordId] = Ckpt(2, 1)

\* stop() has returned, the task that was in flight has finished with its
\* onTaskComplete, every processing loop has ended and no fetch is under way
StoppedAndDrained ==
  /\ status = "stopped"
  /\ closePc = "idle"
  /\ \A c \in Ctx : pc[c] = "idle"

\* C28: once stop() has returned and the task in flight has finished, the
\* timer is not armed, no fetch cycle begins and no task is added, removed
\* or changed, until start() is called.
C28_StoppedIsQuiet ==
  [][StoppedAndDrained
     => /\ ~fetchTimer
        /\ ~fetchTimer'
        /\ fetchCount' = fetchCount
        /\ queue' = queue
        /\ tasks' = tasks]_vars

\* C29: when uploadTask reports success, every file of the task's list is in
\* a batch that was confirmed fully successful, in this call or in the
\* earlier run whose checkpoint the call resumed from.
C29_SuccessCoversAllFiles ==
  (upl.pc = "idle" /\ upl.result.success)
  => 1..upl.files \subseteq covered[upl.recordId]

(***************************************************************************)
(* Properties of the object-storage uploader (TosSpec)                     *)
(***************************************************************************)
\* C30: the number of uploads on the network never exceeds the limit passed
\* to uploadBatch, and uploadingCount is always between 0 and that limit.
C30_UploadsWithinLimit ==
  /\ Cardinality(InFlight) <= maxConcurrentUploads
  /\ 0 <= uploadingCount
  /\ uploadingCount <= maxConcurrentUploads

(***************************************************************************)
(* Further properties of the scheduler (Spec)                              *)
(***************************************************************************)
\* C31: the scheduler's status changes only from idle to running and from
\* running to stopped.
C31_StatusOneWay ==
  [][status' # status
     => \/ status = "idle" /\ status' = "running"
        \/ status = "running" /\ status' = "stopped"]_vars

\* C31 as amended: the status changes only from idle to running, from
\* running to stopped and from stopped to running; it never returns to idle.
C31_StatusCycle ==
  [][status' # status
     => \/ status = "idle" /\ status' = "running"
        \/ status = "running" /\ status' = "stopped"
        \/ status = "stopped" /\ status' = "running"]_vars

\* the scheduler runs again while the close() of the stop() before is still
\* pending
C31_Witness ==
  /\ status = "running"
  /\ closePc = "closing"
  /\ \E i \in Slots : pc[i] \in {"start_fetch", "start_fetch_err"}

\* the fetch budget of the model is used up and a loop waits to finish a task
BudgetBlocked ==
  /\ fetchCount = MaxFetches
  /\ \E i \in Slots : pc[i] \in {"revert", "delete"}

\* C32: while the scheduler stays running, every task that is pending in the
\* queue is eventually picked by a processing loop, whatever the tasks
\* before it ended as.
C32_PendingEventuallyPicked ==
  \A t \in TaskIds :
    (status = "running" /\ t \in Range(queue) /\ tasks[t].status = "pending")
    ~> (tasks[t].status # "pending" \/ BudgetBlocked)

\* the task queued behind a task that ended failed is being processed
C32_Witness ==
  \E a \in TaskIds, b \in TaskIds, i \in Slots :
    /\ status = "running"
    /\ tasks[a].status = "failed" /\ a \in Range(queue)
    /\ cur[i] = b /\ tasks[b].status = "running" /\ pc[i] \in ProcPcs
    /\ \E j \in 1..Len(queue), k \in 1..Len(queue) : j < k /\ queue[j] = a /\ queue[k] = b

\* the record ids the dedup map holds a task for
MapKeys == {r \in Records : taskMap[r] # NoTask}

\* the record ids of the tasks in the queue
QueueRecords == {tasks[queue[k]].recordId : k \in 1..Len(queue)}

\* C33: in every state the keys of the dedup map are exactly the record ids
\* of the queued tasks, the map entry of a record is its queued task, and no
\* two queue entries share a record id; a task leaves the queue only in
\* skipped state or in the step that sets it completed.
C33_MapMatchesQueue ==
  /\ [](/\ MapKeys = QueueRecords
        /\ \A r \in MapKeys : taskMap[r] \in Range(queue) /\ tasks[taskMap[r]].recordId = r
        /\ \A j \in 1..Len(queue), k \in 1..Len(queue) :
             j # k => tasks[queue[j]].recordId # tasks[queue[k]].recordId)
  /\ [][\A t \in Range(queue) :
          t \notin Range(queue')
          => \/ tasks[t].status \in {"completed", "skipped"}
             \/ \E i \in Slots : cur[i] = t /\ ProcEnds(i)
                                 /\ setStatus(S, t, "completed").tasks[t].status = "completed"
                                 /\ EndsAs(i, "completed")]_vars

\* the fetch of a second start() is still in flight after the fetch of the
\* first has queued a record, which the table still lists as awaiting upload:
\* the second fetch delivers a record the map already holds
C33_Witness ==
  \E c \in Slots, d \in Slots, r \in Records :
    /\ c # d
    /\ pc[c] \in {"start_fetch", "start_fetch_err"}
    /\ pc[d] \in ProcPcs
    /\ remote[r] = StPending
    /\ taskMap[r] = cur[d]
    /\ Len(queue) = 2

(***************************************************************************)
(* Further properties of the download pool (PoolRunSpec, PoolSpec)         *)
(***************************************************************************)
\* startDownload returns in this step: the last worker ends
RunReturns == downloading = "running" /\ downloading' = "finished"

Processing(w) == worker[w].pc \in {"url", "mark", "race", "extract"}

\* C35: no item is inside downloadSingleTask of two workers at once, no item
\* occurs twice in the shared queue, and no item is in the queue while a
\* worker is inside downloadSingleTask for it.
C35_OneHolderPerItem ==
  /\ \A w \in Workers, v \in Workers :
       (w # v /\ Processing(w) /\ Processing(v)) => worker[w].task # worker[v].task
  /\ \A w \in Workers :
       \A j \in 1..Len(queueOf(w)), k \in 1..Len(queueOf(w)) :
         j # k => queueOf(w)[j] # queueOf(w)[k]
  /\ \A w \in Workers : Processing(w) => worker[w].task \notin Range(queueOf(w))

(***************************************************************************)
(* Further properties of the batch uploader (UploadRunSpec, UploadSpec)    *)
(***************************************************************************)
\* uploadBatchInternal is between its entry and its return
InAttempt == upl.pc \in {"trigger", "poll", "cancel", "confirm"}

\* C36: every attempt of a batch returns; the polling loop makes no pass at
\* an elapsed time of 10 minutes or more; the attempt that times out returns
\* {success: false, successCount: 0}; uploadBatch then goes on to the next
\* retry of the same batch, or after the tenth attempt ends the batch as
\* failed; the retry index of uploadBatch stays within 0..9.
C36_AttemptsEndAndCount ==
  /\ InAttempt ~> (upl.pc = "returned")
  /\ [](upl.retry \in 0..(maxRetries - 1) /\ upl.clock < maxWaitTime)
  /\ [][(upl'.timedOut /\ ~upl.timedOut)
        => /\ upl'.pc = "returned"
           /\ upl'.attemptResult = Result(FALSE, 0)]_vars
  /\ [][(upl.pc = "returned" /\ upl.timedOut /\ upl' # upl)
        => IF upl.retry < maxRetries - 1
           THEN upl'.retry = upl.retry + 1 /\ upl'.i = upl.i /\ upl'.pc = "reload"
           ELSE /\ upl'.pc = "idle"
                /\ upl'.batchResult = Result(FALSE, 0)
                /\ ~upl'.result.success]_vars

\* the tenth attempt of a batch has timed out
C36_Witness ==
  /\ upl.pc = "returned"
  /\ upl.timedOut
  /\ upl.retry = maxRetries - 1

\* C37: inside one uploadTask invocation the batch index moves only from N
\* to N + 1, and only in the step in which uploadBatch returns for batch N
\* (its last attempt has returned and the result is recorded); the batches
\* begun so far are exactly those from the starting batch up to the current
\* one, and uploadBatchInternal is only ever running for the current one.
C37_BatchesInOrder ==
  /\ [](InBatchLoop => upl.attempted = upl.startBatchIndex..upl.i)
  /\ [][(InBatchLoop /\ upl'.pc # "idle" /\ upl'.i # upl.i)
        => /\ upl'.i = upl.i + 1
           /\ upl.pc = "returned"
           /\ upl'.batchResult = upl.attemptResult
           /\ upl'.batchResult # NoResult
           /\ upl'.retry = 0
           /\ upl'.attempted = upl.attempted \cup {upl'.i}]_vars

\* the second batch is being polled after retries of its own; the first
\* batch has ended
C37_Witness ==
  /\ upl.pc = "poll"
  /\ upl.startBatchIndex = 0
  /\ upl.i = 1
  /\ upl.retry > 0
  /\ upl.batchResult.success

(***************************************************************************)
(* Property of the zip extraction queue (FileSpec)                         *)
(***************************************************************************)
\* the calls whose extractZipInternal is running
Extracting == {c \in ZipCalls : extractCalls[c] = "extracting"}

\* C38: at most one extractZipInternal is running at any time, and while one
\* is running the flag isExtracting is set.
C38_OneExtraction ==
  /\ Cardinality(Extracting) <= 1
  /\ Extracting # {} => isExtracting

\* an extraction started by a later extractZip call is running while a
\* setImmediate callback of the one before is still pending and another call
\* waits in the queue
C38_Witness ==
  /\ Extracting # {}
  /\ immediates > 0
  /\ extractQueue # <<>>
  /\ \E c \in ZipCalls : extractCalls[c] = "rejected"

(***************************************************************************)
(* C39: only a stall causes a requeue.  After startDownload built the      *)
(* queue, an item gains a place in the shared queue, or its retryCount     *)
(* changes, only in the step where the stall rejection of the attempt a    *)
(* worker holds on it reaches the catch block, the item being neither      *)
(* paused nor cancelled and below MAX_RETRIES; the count then grows by     *)
(* one.  An attempt that ends with a download-link failure, a transfer     *)
(* failure, a user pause or a user cancel leaves both alone.               *)
(***************************************************************************)
Occurrences(q, it) == Cardinality({k \in 1..Len(q) : q[k] = it})

StallEnds(w, it) ==
  /\ worker[w].task = it
  /\ worker[w].pc = "race"
  /\ worker[w].isStalled
  /\ worker'[w].pc = "loop"

C39_OnlyStallRequeues ==
  [][\A it \in Items :
       (\/ downloading # "ready" /\ Occurrences(poolQueue', it) > Occurrences(poolQueue, it)
        \/ downloadTasks'[it].retryCount # downloadTasks[it].retryCount)
       => /\ \E w \in Workers : StallEnds(w, it)
          /\ downloadTasks[it].status \notin {"paused", "cancelled"}
          /\ downloadTasks[it].retryCount < MAX_RETRIES
          /\ downloadTasks'[it].retryCount = downloadTasks[it].retryCount + 1
          /\ Occurrences(poolQueue', it) = Occurrences(poolQueue, it) + 1]_vars

\* the attempt on item a ended by a user pause and the one on b by a
\* transfer failure or a failed link, neither requeued nor counted,
\* while the run goes on
C39_Witness ==
  /\ downloading = "running"
  /\ downloadTasks["a"].status = "paused"
  /\ downloadTasks["b"].status = "error"
  /\ \A it \in Items : downloadTasks[it].retryCount = 0 /\ it \notin Range(poolQueue)
  /\ \E w \in Workers : worker[w].task = "a" /\ worker[w].pc = "loop"

(***************************************************************************)
(* C40: the cancel request of a stalled attempt affects only that attempt. *)
(* An attempt of the item whose request was destroyed, or which            *)
(* DownloadService answered as cancelled, is an attempt for which the page *)
(* itself invoked cancelDownload: no attempt started after a requeue is    *)
(* aborted or reported cancelled by the request made for an earlier one.   *)
(***************************************************************************)
C40_CancelHitsOwnAttempt ==
  \A n \in AttemptIds :
    attempts[n].main \in {"destroyed", "cancelled"} => attempts[n].cancelSent

\* the cancel of the first attempt was handled, destroyed its request and
\* left its mark; the second attempt, started after the requeue, cleared
\* the mark and has its own request running and registered
C40_Witness ==
  /\ attempts[1].page = "requeued"
  /\ attempts[1].main \in {"destroyed", "cancelled"}
  /\ attempts[2].page = "race"
  /\ attempts[2].main = "active"
  /\ ~attempts[2].cancelSent
  /\ activeRequest = 2
  /\ ~cancelledDownloads
  /\ ipcQueue = <<>>

====
